---- MODULE Spec2Model ----
(***************************************************************************)
(* Model of the agent execution engine of melton:                         *)
(*   backend/app/services/execution_service.py                            *)
(*     AgentExecutionService.execute_conversation (the agentic loop)       *)
(*   backend/app/llm/{anthropic,openai,google}_provider.py                 *)
(*     stream_with_tools (the canonical events each adapter yields)        *)
(*   backend/app/services/conversation_service.py (persistence)            *)
(*                                                                         *)
(*   backend/app/tools/registry.py (the tool registry)                     *)
(*   backend/app/tools/platforms/base_platform_tool.py (platform requests) *)
(*                                                                         *)
(* Spec: one execution of execute_conversation.  The generator is cut at   *)
(* its yields: every action is the code that runs between two suspension   *)
(* points.  The provider stream and the tool outcomes are the environment; *)
(* they are chosen nondeterministically.                                   *)
(* RegistrySpec: the executions of one process and the registry they       *)
(* share.  PlatformSpec: concurrent calls of _make_authenticated_request   *)
(* on one integration.                                                     *)
(* RateLimitSpec: the request counter of _check_rate_limit.               *)
(* CredentialSpec: concurrent store_oauth_credentials (credential_service).*)
(* ExpirySpec: is_token_expired and _get_access_token.                     *)
(* ApiToolSpec: one APITool.execute (api_tool.py, output_transformer.py).  *)
(* StructuredSpec: generate_structured_output of the three adapters.       *)
(* BuiltinSpec: BuiltinTool.execute (builtin_tool.py).                     *)
(* ToolRegistrySpec: the ToolRegistry class and its methods.               *)
(* ConversationSpec: get_or_create_conversation, save_message and the      *)
(* history query of conversation_service.py, as execute_conversation uses  *)
(* them.                                                                   *)
(* EntitySpec: the entity tracking of execute_conversation.                *)
(* ListSpec: the listing of publications_tool.py (search, then gather).    *)
(* PermissionSpec: grant_permission and revoke_permission                  *)
(* (permission_service.py), two sessions interleaved.                      *)
(***************************************************************************)
EXTENDS Integers, Sequences, FiniteSets, TLC

----------------------------------------------------------------------------
(* Program constants *)

max_iterations == 15

max_tool_failures == 6

total_tool_calls_limit == 15

\* _make_authenticated_request(..., max_retries: int = 3, ...)
max_retries == 3

\* int(e.response.headers.get("Retry-After", 60))
default_retry_after == 60

\* await asyncio.sleep(1) of a call that did not get the refresh lock
lock_wait == 1

\* _check_rate_limit: if current_count >= 1500
rate_limit == 1500

\* is_token_expired: token_expiry - timedelta(seconds=60)
expiry_buffer == 60

\* get_conversation_history(conversation_id, limit: int = 50)
history_limit == 50

----------------------------------------------------------------------------
(* Bounds of the model *)

\* most tool_use_start events the provider stream yields in one turn
MaxTurnCalls == 3

\* most departures of the inputs and the environment from their default in
\* one execution (default: the anthropic provider, no text, one tool call per
\* turn, every call names the same tool with the same outcome as the call
\* before it, the first call being a failing "search", no exception)
MaxVariations == 2

\* most failed HTTP requests (an error status or no response) of the
\* concurrent calls together
MaxFailures == 3

\* most tool lookups one execution makes in RegistrySpec
MaxLookups == 2

\* most calls of _check_rate_limit in RateLimitSpec
MaxChecks == 4

\* most calls of store_oauth_credentials in CredentialSpec
MaxStores == 3

\* last second of the clock in ExpirySpec
MaxTime == 62

\* most calls of generate_structured_output in StructuredSpec
MaxGenerations == 2

\* most calls of BuiltinTool.execute in BuiltinSpec
MaxExecutions == 2

\* most method calls on the registry in ToolRegistrySpec
MaxOps == 3

\* executions of execute_conversation against the stored conversations
MaxConversationRuns == 2

\* tool calls of the execution whose results are tracked for identifiers
MaxEntityCalls == 3

\* item ids the search of the publications list returns at most
MaxItems == 3

\* grant_permission and revoke_permission calls of both sessions together
MaxPermissionOps == 2

----------------------------------------------------------------------------
(* Value sets *)

Providers == {"anthropic", "openai", "google"}

\* names of the tools the provider can request
ToolNames == {"search", "publish"}

\* the text of the k-th content_delta of an execution (chunks are named by
\* their position, so that two chunks never carry the same text)
Delta(k) == <<"chunk", k>>

\* StreamEvent.tool_use_id default (base_provider.py: tool_use_id = None)
NoneId == 0

\* the executions that share the process; Spec follows the first one
Runs == {"r1", "r2"}

ThisRun == "r1"

\* ToolRegistry.get of a name that is not registered (dict.get: None)
NoTool == "none"

\* the concurrent calls of _make_authenticated_request on one integration
Requests == {"q1", "q2"}

\* the refresh lock key is absent
NoLock == "none"

\* the Retry-After header of a 429 response: absent, or decimal digits
NoHeader == [present |-> FALSE, value |-> <<>>]

Header(digits) == [present |-> TRUE, value |-> digits]

RetryAfterHeaders == {NoHeader, Header(<<"5">>)}

\* what the platform answers to one HTTP request
StatusResponse(status, retry_after) ==
    [kind |-> "status", status |-> status, retry_after |-> retry_after]

\* httpx.RequestError: no response at all
NetworkError == [kind |-> "network", status |-> 0, retry_after |-> NoHeader]

Responses ==
    {StatusResponse(c, NoHeader) : c \in {200, 401, 500, 400, 404}}
    \cup {StatusResponse(429, h) : h \in RetryAfterHeaders}
    \cup {NetworkError}

\* ToolRegistry._instance before the first construction (None), and after
NoRegistry == "none"

TheRegistry == "registry"

\* the message kinds of an exception, as the outer except handler tells them
\* apart: "auth" contains one of "api key", "authentication", "unauthorized",
\* "401", "403"; "other" contains none of them
ErrorKinds == {"auth", "other"}

VARIABLES
    agent_exists,           \* _load_agent finds the agent
    provider_type,          \* agent.model_config["provider"]
    key_available,          \* _get_api_key returns a non-empty key
    agent_tools,            \* names of the agent's enabled tools
    registry_tools,         \* ToolRegistry._tools: name -> run that registered
    pc,                     \* position of the generator
    events,                 \* ExecutionEvents yielded so far
    conversations,          \* number of Conversation rows created
    db_messages,            \* messages persisted by save_message, in order
    history,                \* result of get_conversation_history
    conversation_messages,  \* working message history sent to the provider
    iteration,
    consecutive_failures,
    tool_failure_counts,    \* dict, kept in insertion order: <<[k, v], ...>>
    all_tool_calls,
    tool_uses,
    assistant_content,
    final_response_content,
    total_tool_calls,
    turns_requested,        \* number of provider.stream_with_tools calls
    variations,             \* departures from the default used so far
    \* the executions of one process and the registry they share
    registry_instance,      \* ToolRegistry._instance
    run_pc,                 \* position of each AgentExecutionService
    run_registry,           \* self.tool_registry of each service
    run_tools,              \* names of the enabled tools of each run's agent
    run_pending,            \* tools _register_agent_tools has yet to register
    run_lookups,            \* what tool_registry.get returned to each run
    \* platform requests of one integration (_make_authenticated_request)
    stored_token,           \* access token of the integration's Credential row
    token_expired,          \* is_token_expired of that row
    issued,                 \* tokens issued so far by the token endpoint
    refresh_lock,           \* Redis key token_refresh_lock:<integration>
    rq_pc,                  \* position of each call
    attempt,                \* loop variable of each call
    access_token,           \* token in the Authorization header of each call
    new_token,              \* token each call obtained after a 401
    refresh_calls,          \* where each call has called refresh_token from
    lock_acquired,          \* result of redis.set(..., nx=True) in each call
    requests_sent,          \* tokens of the HTTP requests each call has sent
    responses,              \* what each call received for them
    slept,                  \* durations of the asyncio.sleep of each call
    refreshing,             \* token each call got from the endpoint, unsaved
    outcome,                \* how each call ended
    \* -- the request counter of one integration (RateLimitSpec)
    rl_count,               \* Redis key rate_limit:<id>, 0 if absent
    rl_ttl,                 \* the key has an expiry
    rl_window,              \* expirations of the key so far
    rl_pc,                  \* position of each call
    rl_current,             \* current_count each call has read
    rl_seen,                \* rl_window at the time of that read
    rl_requests,            \* HTTP requests each call has sent
    rl_checks,              \* calls of _check_rate_limit so far
    \* -- the stored credentials of one integration (CredentialSpec)
    cred_rows,              \* rows of encrypted_credentials of the integration
    cred_issued,            \* token pairs handed to store_oauth_credentials
    cred_latest,            \* access token of the store that committed last
    st_pc,                  \* position of each call of store_oauth_credentials
    st_token,               \* access_token argument of each call
    st_found,               \* what the select of each call returned
    cred_read,              \* what the last get_credentials returned
    \* -- the expiry test of _get_access_token (ExpirySpec)
    tk_now,                 \* datetime.utcnow(), in seconds
    tk_expiry,              \* credential.token_expiry
    tk_check,               \* the last call of _get_access_token
    \* -- one call of APITool.execute (ApiToolSpec)
    api_config,             \* self.config of the tool
    api_input,              \* input_data
    api_pc,                 \* position of the call
    api_attempt,            \* loop variable of _make_api_call
    api_headers,            \* token in the Authorization header
    api_requests,           \* tokens of the HTTP requests sent to the endpoint
    api_statuses,           \* status of the response to each, 0 for none
    api_refreshes,          \* outcomes of the calls of _refresh_oauth_token
    api_response,           \* what _make_api_call returned
    api_result,             \* what execute returned
    \* -- calls of generate_structured_output (StructuredSpec)
    so_provider,            \* the adapter
    so_system,              \* a system prompt was given
    so_pc,                  \* position of the current call
    so_generation,          \* calls of generate_structured_output so far
    so_calls,               \* the provider calls made, with their outcome
    so_results,             \* how each call of the method ended
    \* -- calls of BuiltinTool.execute (BuiltinSpec)
    bt_function,            \* self.function_name
    bt_sessions,            \* the caller's session and the one execute makes
    bt_db,                  \* rows committed by the builtin functions
    bt_pc,                  \* position of the current call
    bt_executions,          \* calls of execute so far
    bt_log,                 \* the session and outcome of each function run
    bt_result,              \* what the last execute returned
    \* -- the ToolRegistry class and its users (ToolRegistrySpec)
    tr_instance,            \* ToolRegistry._instance, 0 for None
    tr_objects,             \* _tools of every instance made so far
    tr_refs,                \* the instance each user got from ToolRegistry()
    tr_log,                 \* the method calls made, with what they returned
    \* -- the stored conversations and their executions (ConversationSpec)
    cv_conversations,       \* rows of conversations: the id is the position
    cv_messages,            \* rows of messages, in the order of created_at
    ex_pc,                  \* position of the execution
    ex_agent,               \* agent_id of the execution
    ex_conversation,        \* id of the conversation get_or_create returned
    ex_content,             \* content of the user message just submitted
    ex_sent,                \* messages sent to the provider in the first turn
    ex_runs,                \* executions started so far
    \* -- the identifiers tracked from tool results (EntitySpec)
    ent_created,            \* created_entities, a dict in insertion order
    ent_calls,              \* the results in all_tool_calls
    ent_turn,               \* the results in tool_uses of the current turn
    ent_entries,            \* the tool-result entries appended to the history
    \* -- one call of the publications list action (ListSpec)
    li_pc,                  \* position of _list_items
    li_ids,                 \* item_ids, the "results" of the search response
    li_tasks,               \* state of each fetch_item_details coroutine
    li_fetched,             \* what each finished coroutine returned
    li_finished,            \* positions of the coroutines, in finishing order
    li_result,              \* what _list_items returned
    \* -- the permissions of one agent (PermissionSpec)
    pm_rows,                \* permission_type of each user's row, or "none"
    pm_pc,                  \* position of the call of each session
    pm_op,                  \* the call of each session and its arguments
    pm_loaded,              \* permission_type of the row each call loaded
    pm_outcome,             \* how the last call of each session ended
    pm_calls                \* calls each session has made

engineVars == <<agent_exists, provider_type, key_available, agent_tools,
                pc, events,
                conversations, db_messages, history, conversation_messages,
                iteration, consecutive_failures, tool_failure_counts,
                all_tool_calls, tool_uses, assistant_content,
                final_response_content, total_tool_calls, turns_requested,
                variations>>

runVars == <<registry_instance, run_pc, run_registry, run_tools, run_pending,
             run_lookups>>

platformVars == <<stored_token, token_expired, issued, refresh_lock, rq_pc,
                  attempt, access_token, new_token, refresh_calls,
                  lock_acquired, requests_sent,
                  responses, slept, refreshing, outcome>>

rateVars == <<rl_count, rl_ttl, rl_window, rl_pc, rl_current, rl_seen,
              rl_requests, rl_checks>>

credVars == <<cred_rows, cred_issued, cred_latest, st_pc, st_token, st_found,
              cred_read>>

expiryVars == <<tk_now, tk_expiry, tk_check>>

apiVars == <<api_config, api_input, api_pc, api_attempt, api_headers,
             api_requests, api_statuses, api_refreshes, api_response,
             api_result>>

structuredVars == <<so_provider, so_system, so_pc, so_generation, so_calls,
                    so_results>>

builtinVars == <<bt_function, bt_sessions, bt_db, bt_pc, bt_executions,
                 bt_log, bt_result>>

toolRegistryVars == <<tr_instance, tr_objects, tr_refs, tr_log>>

conversationVars == <<cv_conversations, cv_messages, ex_pc, ex_agent,
                      ex_conversation, ex_content, ex_sent, ex_runs>>

entityVars == <<ent_created, ent_calls, ent_turn, ent_entries>>

listVars == <<li_pc, li_ids, li_tasks, li_fetched, li_finished, li_result>>

permissionVars == <<pm_rows, pm_pc, pm_op, pm_loaded, pm_outcome, pm_calls>>

auxVars == <<rateVars, credVars, expiryVars, apiVars, structuredVars,
             builtinVars, toolRegistryVars, conversationVars, entityVars,
             listVars, permissionVars>>

coreVars == <<engineVars, registry_tools, runVars, platformVars>>

vars == <<coreVars, auxVars>>

inputs == <<agent_exists, provider_type, key_available, agent_tools>>

loopVars == <<iteration, consecutive_failures, tool_failure_counts,
              all_tool_calls, tool_uses, assistant_content,
              final_response_content, total_tool_calls>>

\* the database sessions that call store_oauth_credentials concurrently
Sessions == {"s1", "s2"}

\* result.scalar_one_or_none(): None, the row, or MultipleResultsFound
NoRow == [kind |-> "none", index |-> 0, access |-> 0]

OneRow(i, row) == [kind |-> "row", index |-> i, access |-> row.access]

MultipleResultsFound == [kind |-> "multiple", index |-> 0, access |-> 0]

\* credential.token_expiry: NULL, or a time in seconds
NoExpiry == [present |-> FALSE, at |-> 0]

Expiry(t) == [present |-> TRUE, at |-> t]

\* _get_access_token has not been called
NoCheck == [done |-> FALSE, now |-> 0, expiry |-> NoExpiry,
            expired |-> FALSE, returned |-> "none"]

\* expires_in of the token endpoint's answers, in seconds
ExpiresIn == {0, 60, 61, 120}

\* the holders of a reference obtained by ToolRegistry()
Clients == {"c1", "c2"}

\* the tool instances that get registered
ToolObjects == {"t1", "t2"}

\* the agents that are executed
Agents == {"a1", "a2"}

\* conversation_id=None
NoConversation == 0

\* the conversation_id arguments: None, the stored conversation, ids that
\* are not stored at first
ConversationIds == 0..2

\* numbers of messages the stored conversation holds at the start
StoredMessages == {0, 1, 49, 50}

\* the users that hold or are given a permission on the agent
Users == {"u1", "u2"}

\* the permission_type arguments; "edit" is not a permission type
PermissionTypes == {"use", "admin", "edit"}

\* no row of agent_permissions for the user
NoPermission == "none"

\* no call of the permission service has been made by the session
NoPermissionOp ==
    [kind |-> "none", user_id |-> "u1", by |-> "u1", permission_type |-> "use"]

----------------------------------------------------------------------------
(* Helpers *)

\* the user's message, as a string of characters
user_message == <<"h", "i">>

\* Python values that the code tells apart by type
Str(s) == [t |-> "str", v |-> s]

List(l) == [t |-> "list", v |-> l]

None == [t |-> "none", v |-> <<>>]

ExecutionEvent(type, data) == [type |-> type, data |-> data]

\* the insertion-ordered dict tool_failure_counts
DictHas(d, name) == \E i \in 1..Len(d) : d[i].k = name

DictIndex(d, name) == CHOOSE i \in 1..Len(d) : d[i].k = name

DictGet(d, name, default) ==
    IF DictHas(d, name) THEN d[DictIndex(d, name)].v ELSE default

DictSet(d, name, value) ==
    IF DictHas(d, name)
    THEN [d EXCEPT ![DictIndex(d, name)].v = value]
    ELSE Append(d, [k |-> name, v |-> value])

\* max(tool_failure_counts.values()) if tool_failure_counts else 0
MaxToolFailures(d) ==
    IF Len(d) = 0 THEN 0
    ELSE CHOOSE m \in {d[i].v : i \in 1..Len(d)} :
            \A i \in 1..Len(d) : d[i].v <= m

\* [k for k, v in tool_failure_counts.items() if v >= 6][0]
FailingTool(d) ==
    d[CHOOSE i \in 1..Len(d) :
        /\ d[i].v >= max_tool_failures
        /\ \A j \in 1..(i - 1) : d[j].v < max_tool_failures].k

FailureMessage(tool) == <<"The ", tool, " operation has failed 6 times in a row">>

LimitMessage == <<"I've reached the limit of 15 tool calls for this turn">>

\* variant: the stop returns from the generator instead of leaving the loop
AfterBreak_returns == "done"

\* where a break out of the while loop continues: 9. Save agent response
AfterBreak == "save_response"

\* variant: tool_use_complete is yielded before tool_use_start
ToolEvents_completeFirst(tool_name, tool_result) ==
    << ExecutionEvent("tool_use_complete", <<tool_name, tool_result>>),
       ExecutionEvent("tool_use_start", <<tool_name>>) >>

\* the two events yielded around the execution of one tool call
ToolEvents(tool_name, tool_result) ==
    << ExecutionEvent("tool_use_start", <<tool_name>>),
       ExecutionEvent("tool_use_complete", <<tool_name, tool_result>>) >>

\* the id the adapter puts on a tool_use_start StreamEvent
ToolUseId(provider, vendor_id) ==
    IF provider = "anthropic" THEN vendor_id ELSE NoneId

\* ToolRegistry.register
Registry_register(tools, tool_name, tool) ==
    [tools EXCEPT ![tool_name] = tool]

\* ToolRegistry.get
Registry_get(tools, tool_name) == tools[tool_name]

\* _register_agent_tools: every enabled tool of the agent is registered under
\* its schema name; nothing is removed
RegisterAgentTools(tools, names, run) ==
    [n \in DOMAIN tools |-> IF n \in names THEN run ELSE tools[n]]

\* how a tool's execute reports a failure: "publish" raises an exception,
\* "search" returns {"success": False, "error": ...}
ToolRaises(tool_name) == tool_name = "publish"

\* variant: the not-found result carries no "success": False
ExecuteTool_notFoundUnflagged(tools, tool_name, ok) ==
    IF Registry_get(tools, tool_name) = NoTool
    THEN [success |-> TRUE, error |-> <<"Tool ", tool_name, " not found">>]
    ELSE IF ok THEN [success |-> TRUE, error |-> <<>>]
    ELSE IF ToolRaises(tool_name)
    THEN [success |-> FALSE, error |-> <<"exception of ", tool_name>>]
    ELSE [success |-> FALSE, error |-> <<"failure of ", tool_name>>]

\* _execute_tool: the result dict of one tool call (error is <<>> when the
\* dict has no "error" key)
ExecuteTool(tools, tool_name, ok) ==
    IF Registry_get(tools, tool_name) = NoTool
    THEN [success |-> FALSE, error |-> <<"Tool ", tool_name, " not found">>]
    ELSE IF ok THEN [success |-> TRUE, error |-> <<>>]
    ELSE IF ToolRaises(tool_name)
    THEN [success |-> FALSE, error |-> <<"exception of ", tool_name>>]
    ELSE [success |-> FALSE, error |-> <<"failure of ", tool_name>>]

\* the text of a tool-result entry
ResultStr(tool_result) ==
    IF ~tool_result.success THEN tool_result.error ELSE <<"result">>

\* except Exception as e: the events the handler yields, or the exception it
\* raises itself when it reads the agent before _load_agent has returned
ExceptHandler(kind, agent_bound) ==
    IF kind = "auth"
    THEN IF agent_bound
         THEN [raises |-> FALSE,
               events |-> <<ExecutionEvent("error", <<"Invalid API key">>)>>]
         ELSE [raises |-> TRUE, events |-> <<>>]
    ELSE [raises |-> FALSE,
          events |-> <<ExecutionEvent("error", <<"exception: ", kind>>)>>]

ResultContent(tool_use, total, failures) ==
    [text |-> ResultStr(tool_use.result), progress |-> total,
     failures |-> failures]

\* the messages appended after a tool-calling turn, Anthropic shape
AnthropicMessages(content, uses, total, failures) ==
    LET text_blocks == IF content # <<>>
                       THEN <<[type |-> "text", text |-> content]>>
                       ELSE <<>>
        use_blocks == [i \in 1..Len(uses) |->
                        [type |-> "tool_use", id |-> uses[i].id,
                         name |-> uses[i].name]]
        result_blocks == [i \in 1..Len(uses) |->
                        [type |-> "tool_result", tool_use_id |-> uses[i].id,
                         content |-> ResultContent(uses[i], total, failures)]]
    IN  << [role |-> "assistant", content |-> List(text_blocks \o use_blocks)],
           [role |-> "user", content |-> List(result_blocks)] >>

\* the messages appended after a tool-calling turn, OpenAI/Google shape
OpenAIMessages(content, uses, total, failures) ==
    LET tool_calls_array == [i \in 1..Len(uses) |->
                        [id |-> uses[i].id, type |-> "function",
                         name |-> uses[i].name]]
        assistant_msg == [role |-> "assistant",
                          tool_calls |-> tool_calls_array,
                          content |-> IF content # <<>> THEN Str(content)
                                      ELSE None]
        tool_msgs == [i \in 1..Len(uses) |->
                        [role |-> "tool", tool_call_id |-> uses[i].id,
                         content |-> ResultContent(uses[i], total, failures)]]
    IN  <<assistant_msg>> \o tool_msgs

\* variant: only the first tool use of the turn is written to the history
ProviderMessages_firstUseOnly(provider, content, uses, total, failures) ==
    IF provider = "anthropic"
    THEN AnthropicMessages(content, SubSeq(uses, 1, 1), total, failures)
    ELSE OpenAIMessages(content, SubSeq(uses, 1, 1), total, failures)

ProviderMessages(provider, content, uses, total, failures) ==
    IF provider = "anthropic"
    THEN AnthropicMessages(content, uses, total, failures)
    ELSE OpenAIMessages(content, uses, total, failures)

\* .limit(limit) of a query: the first rows of the ordered result
Limit(rows, limit) ==
    SubSeq(rows, 1, IF Len(rows) < limit THEN Len(rows) ELSE limit)

\* ConversationService.get_conversation_history on the messages of one
\* conversation, which are kept in the order of created_at: the first
\* history_limit of them, "agent" becomes "assistant"
HistoryOf(messages) ==
    LET rows == Limit(messages, history_limit)
    IN  [i \in 1..Len(rows) |->
            [role |-> IF rows[i].role = "agent" THEN "assistant"
                      ELSE rows[i].role,
             content |-> Str(rows[i].content)]]

\* ConversationService.save_message
SaveMessage(messages, role, content, tool_calls) ==
    Append(messages, [role |-> role, content |-> content,
                      tool_calls |-> tool_calls])

----------------------------------------------------------------------------
(* Cost of a choice of the environment against the MaxVariations bound *)

ProviderCost(provider) == IF provider = "anthropic" THEN 0 ELSE 1

ToolsCost(names) == IF names = ToolNames THEN 0 ELSE 1

DefaultCall == [tool_name |-> "search", output |-> [success |-> FALSE]]

PreviousCall ==
    IF Len(all_tool_calls) > 0 THEN all_tool_calls[Len(all_tool_calls)]
    ELSE DefaultCall

CallCost(tool, ok) ==
    (IF PreviousCall.tool_name # tool \/ PreviousCall.output.success # ok
     THEN 1 ELSE 0)
    + (IF Len(tool_uses) = 1 THEN 1 ELSE 0)

----------------------------------------------------------------------------
(* Values of the API tool: JSON, JSONPath expressions, configurations *)

\* JSON values, as Python holds them
Num(n) == [t |-> "num", v |-> <<n>>]

Dict(d) == [t |-> "dict", v |-> d]

Item(k, v) == [k |-> k, v |-> v]

\* the steps of a parsed JSONPath expression: a field name, [i], [*]
Field(name) == [step |-> "field", name |-> name, index |-> 0]

Index(i) == [step |-> "index", name |-> "", index |-> i]

Slice == [step |-> "slice", name |-> "", index |-> 0]

\* jsonpath_parse(expr): the steps, or an exception for a malformed expr
Path(steps) == [valid |-> TRUE, steps |-> steps]

InvalidPath == [valid |-> FALSE, steps |-> <<>>]

\* the bodies the endpoint answers with
Bodies ==
    << Dict(<<Item("a", Dict(<<Item("b", Num(5))>>))>>),
       Dict(<<Item("a", Dict(<<Item("b", None)>>))>>),
       Dict(<<Item("items", List(<< Dict(<<Item("id", Num(1))>>),
                                   Dict(<<Item("id", Num(2))>>) >>))>>),
       Dict(<<Item("items", List(<< Dict(<<Item("id", Num(1))>>) >>))>>) >>

\* the output_mapping of the tool's configuration
Mappings ==
    << <<>>,
       <<Item("x", Path(<<Field("a"), Field("b")>>))>>,
       <<Item("y", Path(<<Field("a"), Field("c")>>))>>,
       <<Item("x", Path(<<Field("a"), Field("b")>>)),
         Item("y", Path(<<Field("a"), Field("c")>>))>>,
       <<Item("ids", Path(<<Field("items"), Slice, Field("id")>>)),
         Item("second", Path(<<Field("items"), Index(1), Field("id")>>))>>,
       <<Item("bad", InvalidPath),
         Item("x", Path(<<Field("a"), Field("b")>>))>> >>

\* the fields of the tool's input schema and the values given for them
InputFields == <<"city", "count">>

InputValues == {Str(<<>>), Str(<<"x">>), Num(0), Num(3)}

\* self.config before __init__ has run
NoConfig == [required |-> <<>>, authentication |-> "none",
             refresh_configured |-> FALSE, access_token |-> 0,
             output_mode |-> "full", output_mapping |-> <<>>]

\* _make_api_call has not returned
NoResponse == [t |-> "unset", v |-> <<>>]

\* execute has not returned
NoResult == [returned |-> FALSE, success |-> FALSE, error |-> <<>>,
             data |-> None]

\* what the endpoint answers to one request of the tool: a status with a
\* JSON body, a body that is not JSON, no body, or no response
ApiResponses ==
    {[kind |-> "status", status |-> 200, body |-> b] : b \in 1..Len(Bodies)}
    \cup {[kind |-> "status", status |-> c, body |-> 0] : c \in {200, 401, 500}}
    \cup {[kind |-> "status", status |-> 200, body |-> -1]}
    \cup {[kind |-> "network", status |-> 0, body |-> 0]}

\* what the token endpoint answers to the refresh
RefreshOutcomes == {"ok", "status_401", "status_400", "network"}

\* an AsyncSession: open or not, the objects added and not yet committed,
\* and whether a failed flush has left its transaction unusable
ClosedSession == [open |-> FALSE, pending |-> {}, failed |-> FALSE]

OpenSession(pending) == [open |-> TRUE, pending |-> pending, failed |-> FALSE]

\* self.session of the tool (the conversation's session) and the session
\* of async_session_maker()
SessionNames == {"caller", "new"}

\* config["function_name"]: a key of BUILTIN_FUNCTIONS or not
FunctionNames == {"create_agent", "create_integration", "create_api_tool",
                  "unknown"}

\* how a run of a builtin function ends: an exception before session.add
\* (arguments that do not fit, uuid.UUID of a bad id), an exception of
\* flush, an exception of commit, or its return
FunctionOutcomes == {"bad_arguments", "flush_fails", "commit_fails", "ok"}

----------------------------------------------------------------------------
(* The parts of the state a specification does not exercise *)

\* no execution is in progress
EngineIdle ==
    /\ agent_exists = FALSE
    /\ provider_type = "anthropic"
    /\ key_available = FALSE
    /\ agent_tools = {}
    /\ pc = "idle"
    /\ events = <<>>
    /\ conversations = 0
    /\ db_messages = <<>>
    /\ history = <<>>
    /\ conversation_messages = <<>>
    /\ iteration = 0
    /\ consecutive_failures = 0
    /\ tool_failure_counts = <<>>
    /\ all_tool_calls = <<>>
    /\ tool_uses = <<>>
    /\ assistant_content = <<>>
    /\ final_response_content = <<>>
    /\ total_tool_calls = 0
    /\ turns_requested = 0
    /\ variations = 0

\* the service of the execution has been constructed, no other run exists
RunsIdle ==
    /\ registry_instance = TheRegistry
    /\ run_pc = [r \in Runs |-> "idle"]
    /\ run_registry = [r \in Runs |-> NoRegistry]
    /\ run_tools = [r \in Runs |-> {}]
    /\ run_pending = [r \in Runs |-> {}]
    /\ run_lookups = [r \in Runs |-> <<>>]

\* no platform request is in progress
PlatformIdle ==
    /\ stored_token = 0
    /\ token_expired = FALSE
    /\ issued = 0
    /\ refresh_lock = NoLock
    /\ rq_pc = [q \in Requests |-> "idle"]
    /\ attempt = [q \in Requests |-> 0]
    /\ access_token = [q \in Requests |-> 0]
    /\ new_token = [q \in Requests |-> 0]
    /\ lock_acquired = [q \in Requests |-> "unset"]
    /\ requests_sent = [q \in Requests |-> <<>>]
    /\ responses = [q \in Requests |-> <<>>]
    /\ slept = [q \in Requests |-> <<>>]
    /\ refreshing = [q \in Requests |-> 0]
    /\ refresh_calls = [q \in Requests |-> <<>>]
    /\ outcome = [q \in Requests |-> "none"]

\* no call is checking the request counter
RateIdle ==
    /\ rl_count = 0
    /\ rl_ttl = FALSE
    /\ rl_window = 0
    /\ rl_pc = [q \in Requests |-> "idle"]
    /\ rl_current = [q \in Requests |-> 0]
    /\ rl_seen = [q \in Requests |-> 0]
    /\ rl_requests = [q \in Requests |-> 0]
    /\ rl_checks = 0

\* no credential is stored and no store is in progress
CredIdle ==
    /\ cred_rows = <<>>
    /\ cred_issued = 0
    /\ cred_latest = 0
    /\ st_pc = [s \in Sessions |-> "idle"]
    /\ st_token = [s \in Sessions |-> 0]
    /\ st_found = [s \in Sessions |-> NoRow]
    /\ cred_read = NoRow

\* no token has been asked for
ExpiryIdle ==
    /\ tk_now = 0
    /\ tk_expiry = NoExpiry
    /\ tk_check = NoCheck

\* no API tool is being executed
ApiIdle ==
    /\ api_config = NoConfig
    /\ api_input = <<>>
    /\ api_pc = "idle"
    /\ api_attempt = 0
    /\ api_headers = 0
    /\ api_requests = <<>>
    /\ api_statuses = <<>>
    /\ api_refreshes = <<>>
    /\ api_response = NoResponse
    /\ api_result = NoResult

\* generate_structured_output has not been called
StructuredIdle ==
    /\ so_provider = "anthropic"
    /\ so_system = FALSE
    /\ so_pc = "idle"
    /\ so_generation = 0
    /\ so_calls = <<>>
    /\ so_results = <<>>

\* no builtin tool is being executed
BuiltinIdle ==
    /\ bt_function = "create_agent"
    /\ bt_sessions = [s \in SessionNames |-> ClosedSession]
    /\ bt_db = {}
    /\ bt_pc = "idle"
    /\ bt_executions = 0
    /\ bt_log = <<>>
    /\ bt_result = NoResult

\* the class has not been instantiated
ToolRegistryIdle ==
    /\ tr_instance = 0
    /\ tr_objects = <<>>
    /\ tr_refs = [c \in Clients |-> 0]
    /\ tr_log = <<>>

\* nothing is stored and no execution is in progress
ConversationIdle ==
    /\ cv_conversations = <<>>
    /\ cv_messages = <<>>
    /\ ex_pc = "idle"
    /\ ex_agent = "a1"
    /\ ex_conversation = 0
    /\ ex_content = <<>>
    /\ ex_sent = <<>>
    /\ ex_runs = 0

\* no tool has been called
EntityIdle ==
    /\ ent_created = <<>>
    /\ ent_calls = <<>>
    /\ ent_turn = <<>>
    /\ ent_entries = <<>>

\* the list action has not been called
ListIdle ==
    /\ li_pc = "idle"
    /\ li_ids = <<>>
    /\ li_tasks = <<>>
    /\ li_fetched = <<>>
    /\ li_finished = <<>>
    /\ li_result = [returned |-> FALSE, success |-> FALSE, items |-> <<>>]

\* no permission is stored and no call is in progress
PermissionIdle ==
    /\ pm_rows = [u \in Users |-> NoPermission]
    /\ pm_pc = [s \in Sessions |-> "idle"]
    /\ pm_op = [s \in Sessions |-> NoPermissionOp]
    /\ pm_loaded = [s \in Sessions |-> NoPermission]
    /\ pm_outcome = [s \in Sessions |-> "none"]
    /\ pm_calls = [s \in Sessions |-> 0]

AuxIdle ==
    /\ RateIdle
    /\ CredIdle
    /\ ExpiryIdle
    /\ ApiIdle
    /\ StructuredIdle
    /\ BuiltinIdle
    /\ ToolRegistryIdle
    /\ ConversationIdle
    /\ EntityIdle
    /\ ListIdle
    /\ PermissionIdle

CoreIdle ==
    /\ EngineIdle
    /\ registry_tools = [n \in ToolNames |-> NoTool]
    /\ RunsIdle
    /\ PlatformIdle

----------------------------------------------------------------------------
(* Initial state: the arguments and the stored configuration *)

Init ==
    /\ agent_exists \in BOOLEAN
    /\ provider_type \in Providers
    /\ key_available \in BOOLEAN
    /\ agent_tools \in {ToolNames, {"search"}}
    /\ registry_tools = [n \in ToolNames |-> NoTool]
    /\ pc = "load_agent"
    /\ events = <<>>
    /\ conversations = 0
    /\ db_messages = <<>>
    /\ history = <<>>
    /\ conversation_messages = <<>>
    /\ iteration = 0
    /\ consecutive_failures = 0
    /\ tool_failure_counts = <<>>
    /\ all_tool_calls = <<>>
    /\ tool_uses = <<>>
    /\ assistant_content = <<>>
    /\ final_response_content = <<>>
    /\ total_tool_calls = 0
    /\ turns_requested = 0
    /\ variations = ProviderCost(provider_type) + ToolsCost(agent_tools)
    /\ RunsIdle
    /\ PlatformIdle
    /\ AuxIdle

----------------------------------------------------------------------------
(* Actions *)

\* 1. Load agent configuration
LoadAgent ==
    /\ pc = "load_agent"
    /\ IF ~agent_exists
       THEN /\ events' = Append(events, ExecutionEvent("error", <<"Agent not found">>))
            /\ pc' = "done"
       ELSE /\ events' = Append(events, ExecutionEvent("agent_loaded", <<>>))
            /\ pc' = "start_conversation"
    /\ UNCHANGED <<runVars, platformVars, auxVars, inputs, registry_tools, conversations, db_messages, history,
                   conversation_messages, loopVars, turns_requested,
                   variations>>

\* 2./3. Register the agent's tools, get or create the conversation
StartConversation ==
    /\ pc = "start_conversation"
    /\ registry_tools' = RegisterAgentTools(registry_tools, agent_tools, ThisRun)
    /\ conversations' = conversations + 1
    /\ events' = Append(events, ExecutionEvent("conversation_started", <<>>))
    /\ pc' = "prepare"
    /\ UNCHANGED <<runVars, platformVars, auxVars, inputs, db_messages, history, conversation_messages,
                   loopVars, turns_requested, variations>>

\* 4.-9. Save the user message, build the history, get the provider and
\* initialise the loop state
PrepareRun ==
    /\ pc = "prepare"
    /\ db_messages' = SaveMessage(db_messages, "user", user_message, <<>>)
    /\ history' = HistoryOf(db_messages')
    /\ IF ~key_available
       THEN /\ events' = Append(events, ExecutionEvent("error", <<"No API key configured">>))
            /\ pc' = "done"
            /\ UNCHANGED conversation_messages
       ELSE /\ conversation_messages' = history'
            /\ pc' = "loop"
            /\ UNCHANGED events
    /\ UNCHANGED <<runVars, platformVars, auxVars, inputs, registry_tools, conversations, loopVars, turns_requested,
                   variations>>

\* while iteration < max_iterations: request a model turn
StartTurn ==
    /\ pc = "loop"
    /\ IF iteration < max_iterations
       THEN /\ iteration' = iteration + 1
            /\ assistant_content' = <<>>
            /\ tool_uses' = <<>>
            /\ turns_requested' = turns_requested + 1
            /\ pc' = "streaming"
       ELSE /\ pc' = "save_response"
            /\ UNCHANGED <<iteration, assistant_content, tool_uses,
                           turns_requested>>
    /\ UNCHANGED <<runVars, platformVars, auxVars, inputs, registry_tools, events, conversations, db_messages, history,
                   conversation_messages, consecutive_failures,
                   tool_failure_counts, all_tool_calls,
                   final_response_content, total_tool_calls, variations>>

\* variant: the chunk is put in front of the accumulated text
StreamContentDelta_prepend(delta) ==
    /\ pc = "streaming"
    /\ variations < MaxVariations
    /\ variations' = variations + 1
    /\ assistant_content' = delta \o assistant_content
    /\ events' = Append(events, ExecutionEvent("content_delta", delta))
    /\ UNCHANGED <<runVars, platformVars, auxVars, inputs, registry_tools, pc, conversations, db_messages, history,
                   conversation_messages, iteration, consecutive_failures,
                   tool_failure_counts, all_tool_calls, tool_uses,
                   final_response_content, total_tool_calls, turns_requested>>

\* the stream yields content_delta
StreamContentDelta(delta) ==
    /\ pc = "streaming"
    /\ variations < MaxVariations
    /\ variations' = variations + 1
    /\ assistant_content' = assistant_content \o delta
    /\ events' = Append(events, ExecutionEvent("content_delta", delta))
    /\ UNCHANGED <<runVars, platformVars, auxVars, inputs, registry_tools, pc, conversations, db_messages, history,
                   conversation_messages, iteration, consecutive_failures,
                   tool_failure_counts, all_tool_calls, tool_uses,
                   final_response_content, total_tool_calls, turns_requested>>

\* the stream yields tool_use_start: the tool is executed at once
StreamToolUse(tool_name, ok, vendor_id) ==
    LET tool_result == ExecuteTool(registry_tools, tool_name, ok)
        tool_use_id == ToolUseId(provider_type, vendor_id)
        cost == CallCost(tool_name, tool_result.success)
    IN
    /\ pc = "streaming"
    /\ Len(tool_uses) < MaxTurnCalls
    /\ variations + cost <= MaxVariations
    /\ variations' = variations + cost
    /\ IF ~tool_result.success
       THEN /\ tool_failure_counts' =
                 DictSet(tool_failure_counts, tool_name,
                         DictGet(tool_failure_counts, tool_name, 0) + 1)
            /\ consecutive_failures' = consecutive_failures + 1
       ELSE /\ tool_failure_counts' = DictSet(tool_failure_counts, tool_name, 0)
            /\ consecutive_failures' = 0
    /\ tool_uses' = Append(tool_uses, [id |-> tool_use_id, name |-> tool_name,
                                       result |-> tool_result])
    /\ all_tool_calls' = Append(all_tool_calls, [tool_name |-> tool_name,
                                                 output |-> tool_result])
    /\ events' = events \o ToolEvents(tool_name, tool_result)
    /\ UNCHANGED <<runVars, platformVars, auxVars, inputs, registry_tools, pc, conversations, db_messages, history,
                   conversation_messages, iteration, assistant_content,
                   final_response_content, total_tool_calls, turns_requested>>

\* the stream is exhausted: final answer, stop condition or next turn
EndTurn ==
    /\ pc = "streaming"
    /\ IF Len(tool_uses) = 0
       THEN /\ final_response_content' = assistant_content
            /\ pc' = AfterBreak
            /\ UNCHANGED <<events, conversation_messages, total_tool_calls>>
       ELSE LET total == Len(all_tool_calls) + Len(tool_uses)
                bubble == IF assistant_content # <<>>
                          THEN <<ExecutionEvent("message_complete", <<>>)>>
                          ELSE <<>>
            IN  /\ total_tool_calls' = total
                /\ IF MaxToolFailures(tool_failure_counts) >= max_tool_failures
                   THEN /\ final_response_content' =
                               FailureMessage(FailingTool(tool_failure_counts))
                        /\ events' = events \o bubble \o
                              <<ExecutionEvent("content_delta",
                                               final_response_content')>>
                        /\ pc' = AfterBreak
                        /\ UNCHANGED conversation_messages
                   ELSE IF total >= total_tool_calls_limit
                   THEN /\ final_response_content' = LimitMessage
                        /\ events' = events \o bubble \o
                              <<ExecutionEvent("content_delta",
                                               final_response_content')>>
                        /\ pc' = AfterBreak
                        /\ UNCHANGED conversation_messages
                   ELSE /\ conversation_messages' = conversation_messages \o
                              ProviderMessages(provider_type, assistant_content,
                                               tool_uses, total,
                                               consecutive_failures)
                        /\ events' = events \o bubble
                        /\ pc' = "loop"
                        /\ UNCHANGED final_response_content
    /\ UNCHANGED <<runVars, platformVars, auxVars, inputs, registry_tools, conversations, db_messages, history, iteration,
                   consecutive_failures, tool_failure_counts, all_tool_calls,
                   tool_uses, assistant_content, turns_requested, variations>>

\* _load_agent raises (the database is unreachable): the outer except
\* handler runs before agent is bound
LoadAgentError(kind) ==
    LET handler == ExceptHandler(kind, FALSE)
    IN
    /\ pc = "load_agent"
    /\ variations < MaxVariations
    /\ variations' = variations + 1
    /\ events' = events \o handler.events
    /\ pc' = IF handler.raises THEN "raised" ELSE "done"
    /\ UNCHANGED <<runVars, platformVars, auxVars, inputs, registry_tools, conversations, db_messages, history,
                   conversation_messages, loopVars, turns_requested>>

\* the provider call raises: the outer except handler runs
ProviderError(kind) ==
    LET handler == ExceptHandler(kind, TRUE)
    IN
    /\ pc = "streaming"
    /\ variations < MaxVariations
    /\ variations' = variations + 1
    /\ events' = events \o handler.events
    /\ pc' = IF handler.raises THEN "raised" ELSE "done"
    /\ UNCHANGED <<runVars, platformVars, auxVars, inputs, registry_tools, conversations, db_messages, history,
                   conversation_messages, loopVars, turns_requested>>

\* variant: only the tool calls of the last turn are persisted
SaveResponse_lastTurnOnly ==
    /\ pc = "save_response"
    /\ db_messages' = SaveMessage(db_messages, "agent", final_response_content,
                          [i \in 1..Len(tool_uses) |->
                              [tool_name |-> tool_uses[i].name,
                               output |-> tool_uses[i].result]])
    /\ events' = Append(events, ExecutionEvent("message_complete", <<>>))
    /\ pc' = "done"
    /\ UNCHANGED <<runVars, platformVars, auxVars, inputs, registry_tools, conversations, history, conversation_messages,
                   loopVars, turns_requested, variations>>

\* 9. Save agent response, then message_complete
SaveResponse ==
    /\ pc = "save_response"
    /\ db_messages' = SaveMessage(db_messages, "agent", final_response_content,
                                  all_tool_calls)
    /\ events' = Append(events, ExecutionEvent("message_complete", <<>>))
    /\ pc' = "done"
    /\ UNCHANGED <<runVars, platformVars, auxVars, inputs, registry_tools, conversations, history, conversation_messages,
                   loopVars, turns_requested, variations>>

Next ==
    \/ LoadAgent
    \/ \E kind \in ErrorKinds : LoadAgentError(kind)
    \/ StartConversation
    \/ PrepareRun
    \/ StartTurn
    \/ StreamContentDelta(Delta(Cardinality({i \in 1..Len(events) :
                                  events[i].type = "content_delta"}) + 1))
    \/ \E tool_name \in ToolNames, ok \in BOOLEAN :
          StreamToolUse(tool_name, ok, Len(all_tool_calls) + 1)
    \/ EndTurn
    \/ \E kind \in ErrorKinds : ProviderError(kind)
    \/ SaveResponse

Spec == Init /\ [][Next]_vars

----------------------------------------------------------------------------
(* The tool registry shared by the executions of one process               *)
(*   backend/app/tools/registry.py, execution_service.py __init__,         *)
(*   _register_agent_tools and _execute_tool                               *)

RegistryInit ==
    /\ EngineIdle
    /\ PlatformIdle
    /\ AuxIdle
    /\ registry_instance = NoRegistry
    /\ registry_tools = [n \in ToolNames |-> NoTool]
    /\ run_pc = [r \in Runs |-> "new"]
    /\ run_registry = [r \in Runs |-> NoRegistry]
    /\ run_tools \in [Runs -> SUBSET ToolNames]
    /\ run_pending = [r \in Runs |-> {}]
    /\ run_lookups = [r \in Runs |-> <<>>]

\* AgentExecutionService.__init__: self.tool_registry = ToolRegistry()
NewService(r) ==
    /\ run_pc[r] = "new"
    /\ registry_instance' = TheRegistry
    /\ registry_tools' = IF registry_instance = NoRegistry
                         THEN [n \in ToolNames |-> NoTool]
                         ELSE registry_tools
    /\ run_registry' = [run_registry EXCEPT ![r] = registry_instance']
    /\ run_pending' = [run_pending EXCEPT ![r] = run_tools[r]]
    /\ run_pc' = [run_pc EXCEPT ![r] = IF run_tools[r] = {} THEN "execute"
                                       ELSE "register"]
    /\ UNCHANGED <<engineVars, platformVars, auxVars, run_tools, run_lookups>>

\* one pass of the loop of _register_agent_tools
RegisterTool(r, tool_name) ==
    /\ run_pc[r] = "register"
    /\ tool_name \in run_pending[r]
    /\ registry_tools' = Registry_register(registry_tools, tool_name, r)
    /\ run_pending' = [run_pending EXCEPT ![r] = @ \ {tool_name}]
    /\ run_pc' = [run_pc EXCEPT ![r] = IF run_pending'[r] = {} THEN "execute"
                                       ELSE "register"]
    /\ UNCHANGED <<engineVars, platformVars, auxVars, registry_instance, run_registry,
                   run_tools, run_lookups>>

\* _execute_tool: tool = self.tool_registry.get(tool_name)
LookupTool(r, tool_name) ==
    /\ run_pc[r] = "execute"
    /\ Len(run_lookups[r]) < MaxLookups
    /\ run_lookups' = [run_lookups EXCEPT ![r] =
            Append(@, [name |-> tool_name,
                       tool |-> Registry_get(registry_tools, tool_name)])]
    /\ UNCHANGED <<engineVars, platformVars, auxVars, registry_tools,
                   registry_instance, run_pc, run_registry, run_tools,
                   run_pending>>

\* the execution ends
FinishRun(r) ==
    /\ run_pc[r] = "execute"
    /\ run_pc' = [run_pc EXCEPT ![r] = "done"]
    /\ UNCHANGED <<engineVars, platformVars, auxVars, registry_tools,
                   registry_instance, run_registry, run_tools, run_pending,
                   run_lookups>>

RegistryNext ==
    \/ \E r \in Runs : NewService(r)
    \/ \E r \in Runs, tool_name \in ToolNames : RegisterTool(r, tool_name)
    \/ \E r \in Runs, tool_name \in ToolNames : LookupTool(r, tool_name)
    \/ \E r \in Runs : FinishRun(r)

RegistrySpec == RegistryInit /\ [][RegistryNext]_vars

----------------------------------------------------------------------------
(* Platform requests: backend/app/tools/platforms/base_platform_tool.py    *)
(*   _get_access_token, _make_authenticated_request;                       *)
(*   backend/app/services/oauth_service.py refresh_token                   *)
(* Two calls on the same integration run concurrently; a call is cut at    *)
(* its awaits.  The platform's responses, the token endpoint and the       *)
(* passing of time are the environment.                                    *)

DigitValue(c) ==
    CASE c = "0" -> 0 [] c = "1" -> 1 [] c = "2" -> 2 [] c = "3" -> 3
      [] c = "4" -> 4 [] c = "5" -> 5 [] c = "6" -> 6 [] c = "7" -> 7
      [] c = "8" -> 8 [] c = "9" -> 9

\* int("...") of a string of decimal digits
RECURSIVE ParseInt(_)
ParseInt(digits) ==
    IF Len(digits) = 0 THEN 0
    ELSE 10 * ParseInt(SubSeq(digits, 1, Len(digits) - 1))
         + DigitValue(digits[Len(digits)])

\* variant: the header is ignored
RetryAfter_headerIgnored(header) == default_retry_after

\* retry_after = int(e.response.headers.get("Retry-After", 60))
RetryAfter(header) ==
    IF header.present THEN ParseInt(header.value) ELSE default_retry_after

\* variant: the same pause before every retry
Backoff_constant(a) == 1

\* backoff = 2 ** attempt
Backoff(a) == 2 ^ a

\* variant: the last attempt is retried as well
CanRetry_always(a) == a < max_retries

\* if attempt < max_retries - 1
CanRetry(a) == a < max_retries - 1

\* variant: every status from 400 on that is not 401 or 429 is retried
StatusClass_clientAsServer(response) ==
    IF response.kind = "network" THEN "network"
    ELSE IF response.status < 400 THEN "success"
    ELSE IF response.status = 401 THEN "unauthorized"
    ELSE IF response.status = 429 THEN "rate_limited"
    ELSE "server"

\* the branch of the handlers that a response takes
StatusClass(response) ==
    IF response.kind = "network" THEN "network"
    ELSE IF response.status < 400 THEN "success"
    ELSE IF response.status = 401 THEN "unauthorized"
    ELSE IF response.status = 429 THEN "rate_limited"
    ELSE IF 500 <= response.status /\ response.status < 600 THEN "server"
    ELSE "other"

\* variant: the failure of the last attempt is swallowed and the call ends
\* with neither a response nor an exception
ExhaustedError_swallowed(class) == "none"

\* the exception raised when the last attempt fails
ExhaustedError(class) ==
    CASE class = "rate_limited" -> "Rate limit exceeded (HTTP 429)"
      [] class = "server" -> "API server error"
      [] class = "network" -> "Network error"

\* the exception raised for a status that is not retried
ClientError(status) ==
    IF status = 400 THEN "Validation error (HTTP 400)" ELSE "API error"

\* the httpx exception itself, when it is not replaced by a message
RawError(response) ==
    IF response.kind = "network" THEN "RequestError" ELSE "HTTPStatusError"

\* variant: a 401 on the retried request is handled like the first one
AfterRetryFailure_handledAgain(response) ==
    IF StatusClass(response) = "unauthorized" THEN "lock" ELSE "done"

\* an exception of the retried request leaves the except block
AfterRetryFailure(response) == "done"

PlatformInit ==
    /\ EngineIdle
    /\ RunsIdle
    /\ AuxIdle
    /\ registry_tools = [n \in ToolNames |-> NoTool]
    /\ stored_token = 0
    /\ token_expired = FALSE
    /\ issued = 0
    /\ refresh_lock = NoLock
    /\ rq_pc = [q \in Requests |-> "start"]
    /\ attempt = [q \in Requests |-> 0]
    /\ access_token = [q \in Requests |-> 0]
    /\ new_token = [q \in Requests |-> 0]
    /\ refresh_calls = [q \in Requests |-> <<>>]
    /\ lock_acquired = [q \in Requests |-> "unset"]
    /\ requests_sent = [q \in Requests |-> <<>>]
    /\ responses = [q \in Requests |-> <<>>]
    /\ slept = [q \in Requests |-> <<>>]
    /\ refreshing = [q \in Requests |-> 0]
    /\ outcome = [q \in Requests |-> "none"]

notPlatform == <<engineVars, registry_tools, runVars, auxVars>>

IsFailure(response) == StatusClass(response) # "success"

\* the failed requests so far
Failures ==
    LET Count(q) == Cardinality({i \in 1..Len(responses[q]) :
                                    IsFailure(responses[q][i])})
    IN  Count("q1") + Count("q2")

\* access_token = await self._get_access_token(), before the loop
BeginRequest(q) ==
    /\ rq_pc[q] = "start"
    /\ IF token_expired
       THEN /\ rq_pc' = [rq_pc EXCEPT ![q] = "refresh_first"]
            /\ UNCHANGED access_token
       ELSE /\ access_token' = [access_token EXCEPT ![q] = stored_token]
            /\ rq_pc' = [rq_pc EXCEPT ![q] = "send"]
    /\ UNCHANGED <<notPlatform, stored_token, token_expired, issued,
                   refresh_lock, attempt, new_token, refresh_calls,
                   lock_acquired, requests_sent, responses, slept,
                   refreshing, outcome>>

\* oauth_service.refresh_token up to the answer of the token endpoint
RefreshRequest(q, ok) ==
    /\ rq_pc[q] \in {"refresh_first", "refresh_winner", "refresh_loser"}
    /\ refresh_calls' = [refresh_calls EXCEPT ![q] = Append(@, rq_pc[q])]
    /\ IF ok
       THEN /\ issued' = issued + 1
            /\ refreshing' = [refreshing EXCEPT ![q] = issued']
            /\ rq_pc' = [rq_pc EXCEPT ![q] =
                    CASE rq_pc[q] = "refresh_first" -> "store_first"
                      [] rq_pc[q] = "refresh_winner" -> "store_winner"
                      [] rq_pc[q] = "refresh_loser" -> "store_loser"]
            /\ UNCHANGED outcome
       ELSE /\ rq_pc' = [rq_pc EXCEPT ![q] = "done"]
            /\ outcome' = [outcome EXCEPT ![q] = "ValueError"]
            /\ UNCHANGED <<issued, refreshing>>
    /\ UNCHANGED <<notPlatform, stored_token, token_expired, refresh_lock,
                   attempt, access_token, new_token, lock_acquired,
                   requests_sent, responses, slept>>

\* oauth_service.refresh_token: store_oauth_credentials and return
StoreToken(q) ==
    /\ rq_pc[q] \in {"store_first", "store_winner", "store_loser"}
    /\ stored_token' = refreshing[q]
    /\ token_expired' = FALSE
    /\ refreshing' = [refreshing EXCEPT ![q] = 0]
    /\ IF rq_pc[q] = "store_first"
       THEN /\ access_token' = [access_token EXCEPT ![q] = refreshing[q]]
            /\ rq_pc' = [rq_pc EXCEPT ![q] = "send"]
            /\ UNCHANGED new_token
       ELSE /\ new_token' = [new_token EXCEPT ![q] = refreshing[q]]
            /\ rq_pc' = [rq_pc EXCEPT ![q] = "retry"]
            /\ UNCHANGED access_token
    /\ UNCHANGED <<notPlatform, issued, refresh_lock, attempt, refresh_calls,
                   lock_acquired, requests_sent, responses, slept, outcome>>

\* one pass of "for attempt in range(max_retries)": the request, and the
\* handler of its response up to the next request, the 401 branch or the end
SendRequest(q, response) ==
    LET class == StatusClass(response)
        retried == /\ class \in {"rate_limited", "server", "network"}
                   /\ CanRetry(attempt[q])
        wait == IF class = "rate_limited"
                THEN RetryAfter(response.retry_after)
                ELSE Backoff(attempt[q])
        next_pc == IF class = "unauthorized" THEN "lock"
                   ELSE IF retried /\ attempt[q] + 1 < max_retries THEN "send"
                   ELSE "done"
        result == IF class = "success" THEN "returned"
                  ELSE IF class = "other" THEN ClientError(response.status)
                  ELSE IF retried THEN RawError(response)
                  ELSE ExhaustedError(class)
    IN
    /\ rq_pc[q] = "send"
    /\ IsFailure(response) => Failures < MaxFailures
    /\ requests_sent' = [requests_sent EXCEPT ![q] = Append(@, access_token[q])]
    /\ responses' = [responses EXCEPT ![q] = Append(@, response)]
    /\ slept' = [slept EXCEPT ![q] = IF retried THEN Append(@, wait) ELSE @]
    /\ attempt' = [attempt EXCEPT ![q] = IF retried THEN @ + 1 ELSE @]
    /\ rq_pc' = [rq_pc EXCEPT ![q] = next_pc]
    /\ outcome' = [outcome EXCEPT ![q] = IF next_pc = "done" THEN result
                                         ELSE @]
    /\ UNCHANGED <<notPlatform, stored_token, token_expired, issued,
                   refresh_lock, access_token, new_token, refresh_calls,
                   lock_acquired, refreshing>>

\* 401: lock_acquired = await redis.set(lock_key, "1", nx=True, ex=10)
AcquireLock(q) ==
    /\ rq_pc[q] = "lock"
    /\ IF refresh_lock = NoLock
       THEN /\ refresh_lock' = q
            /\ lock_acquired' = [lock_acquired EXCEPT ![q] = "won"]
            /\ rq_pc' = [rq_pc EXCEPT ![q] = "refresh_winner"]
            /\ UNCHANGED slept
       ELSE /\ lock_acquired' = [lock_acquired EXCEPT ![q] = "lost"]
            /\ slept' = [slept EXCEPT ![q] = Append(@, lock_wait)]
            /\ rq_pc' = [rq_pc EXCEPT ![q] = "reread"]
            /\ UNCHANGED refresh_lock
    /\ UNCHANGED <<notPlatform, stored_token, token_expired, issued, attempt,
                   access_token, new_token, refresh_calls, requests_sent,
                   responses, refreshing, outcome>>

\* after the sleep: new_token = await self._get_access_token()
RereadToken(q) ==
    /\ rq_pc[q] = "reread"
    /\ IF token_expired
       THEN /\ rq_pc' = [rq_pc EXCEPT ![q] = "refresh_loser"]
            /\ UNCHANGED new_token
       ELSE /\ new_token' = [new_token EXCEPT ![q] = stored_token]
            /\ rq_pc' = [rq_pc EXCEPT ![q] = "retry"]
    /\ UNCHANGED <<notPlatform, stored_token, token_expired, issued,
                   refresh_lock, attempt, access_token, refresh_calls,
                   lock_acquired, requests_sent, responses, slept,
                   refreshing, outcome>>

\* the original request is sent again with the new token
RetryRequest(q, response) ==
    LET next_pc == IF StatusClass(response) = "success" THEN "done"
                   ELSE AfterRetryFailure(response)
        result == IF StatusClass(response) = "success" THEN "returned"
                  ELSE RawError(response)
    IN
    /\ rq_pc[q] = "retry"
    /\ IsFailure(response) => Failures < MaxFailures
    /\ access_token' = [access_token EXCEPT ![q] = new_token[q]]
    /\ requests_sent' = [requests_sent EXCEPT ![q] = Append(@, new_token[q])]
    /\ responses' = [responses EXCEPT ![q] = Append(@, response)]
    /\ rq_pc' = [rq_pc EXCEPT ![q] = next_pc]
    /\ outcome' = [outcome EXCEPT ![q] = IF next_pc = "done" THEN result
                                         ELSE @]
    /\ UNCHANGED <<notPlatform, stored_token, token_expired, issued,
                   refresh_lock, attempt, new_token, refresh_calls,
                   lock_acquired, slept, refreshing>>

\* the lock key reaches its expiry (ex=10); nothing deletes it earlier
LockExpires ==
    /\ refresh_lock # NoLock
    /\ refresh_lock' = NoLock
    /\ UNCHANGED <<notPlatform, stored_token, token_expired, issued, rq_pc,
                   attempt, access_token, new_token, refresh_calls,
                   lock_acquired, requests_sent, responses, slept,
                   refreshing, outcome>>

\* time passes: utcnow() reaches token_expiry minus the 60 s buffer
TokenExpires ==
    /\ ~token_expired
    /\ token_expired' = TRUE
    /\ UNCHANGED <<notPlatform, stored_token, issued, refresh_lock, rq_pc,
                   attempt, access_token, new_token, refresh_calls,
                   lock_acquired, requests_sent, responses, slept,
                   refreshing, outcome>>

PlatformNext ==
    \/ \E q \in Requests : BeginRequest(q)
    \/ \E q \in Requests, ok \in BOOLEAN : RefreshRequest(q, ok)
    \/ \E q \in Requests : StoreToken(q)
    \/ \E q \in Requests, response \in Responses : SendRequest(q, response)
    \/ \E q \in Requests : AcquireLock(q)
    \/ \E q \in Requests : RereadToken(q)
    \/ \E q \in Requests, response \in Responses : RetryRequest(q, response)
    \/ LockExpires
    \/ TokenExpires

PlatformSpec == PlatformInit /\ [][PlatformNext]_vars

----------------------------------------------------------------------------
(* The request counter: base_platform_tool.py _check_rate_limit and the     *)
(* request that follows it in _make_authenticated_request.  Two calls on    *)
(* the same integration run concurrently; a call is cut at its awaits       *)
(* (redis.get, pipe.execute, the HTTP request).  The expiry of the key is   *)
(* the environment.                                                         *)

notRate == <<coreVars, credVars, expiryVars, apiVars, structuredVars,
             builtinVars, toolRegistryVars, conversationVars, entityVars,
             listVars, permissionVars>>

RateLimitInit ==
    /\ CoreIdle
    /\ CredIdle
    /\ ExpiryIdle
    /\ ApiIdle
    /\ StructuredIdle
    /\ BuiltinIdle
    /\ ToolRegistryIdle
    /\ ConversationIdle
    /\ EntityIdle
    /\ ListIdle
    /\ PermissionIdle
    /\ rl_count \in {0, rate_limit - 1, rate_limit}
    /\ rl_ttl = (rl_count # 0)
    /\ rl_window = 0
    /\ rl_pc = [q \in Requests |-> "start"]
    /\ rl_current = [q \in Requests |-> 0]
    /\ rl_seen = [q \in Requests |-> 0]
    /\ rl_requests = [q \in Requests |-> 0]
    /\ rl_checks = 0

\* if current_count >= 1500
QuotaExceeded(current_count) == current_count >= rate_limit

\* raise Exception("Rate limit exceeded ...") is raised inside the try of
\* _check_rate_limit, whose except Exception logs a warning: the method
\* returns and the caller goes on to the request
AfterQuotaRaise == "send"

\* current = await redis.get(key); current_count = int(current) if current
\* else 0; the test of the quota
ReadCounter(q) ==
    /\ rl_pc[q] = "start"
    /\ rl_checks < MaxChecks
    /\ rl_checks' = rl_checks + 1
    /\ rl_current' = [rl_current EXCEPT ![q] = rl_count]
    /\ rl_seen' = [rl_seen EXCEPT ![q] = rl_window]
    /\ rl_pc' = [rl_pc EXCEPT ![q] = IF QuotaExceeded(rl_count)
                                     THEN AfterQuotaRaise
                                     ELSE "incr"]
    /\ UNCHANGED <<notRate, rl_count, rl_ttl, rl_window, rl_requests>>

\* redis.get raises (connection error): except Exception, warning, return
RedisFails(q) ==
    /\ rl_pc[q] = "start"
    /\ rl_checks < MaxChecks
    /\ rl_checks' = rl_checks + 1
    /\ rl_current' = [rl_current EXCEPT ![q] = 0]
    /\ rl_seen' = [rl_seen EXCEPT ![q] = rl_window]
    /\ rl_pc' = [rl_pc EXCEPT ![q] = "send"]
    /\ UNCHANGED <<notRate, rl_count, rl_ttl, rl_window, rl_requests>>

\* pipe.incr(key); if current_count == 0: pipe.expire(key, 60);
\* await pipe.execute()
Increment(q) ==
    /\ rl_pc[q] = "incr"
    /\ rl_count' = rl_count + 1
    /\ rl_ttl' = (rl_ttl \/ rl_current[q] = 0)
    /\ rl_pc' = [rl_pc EXCEPT ![q] = "send"]
    /\ UNCHANGED <<notRate, rl_window, rl_current, rl_seen, rl_requests,
                   rl_checks>>

\* the HTTP request that follows the check; the next call of this client
\* starts at _check_rate_limit again
SendHttp(q) ==
    /\ rl_pc[q] = "send"
    /\ rl_requests' = [rl_requests EXCEPT ![q] = @ + 1]
    /\ rl_pc' = [rl_pc EXCEPT ![q] = "start"]
    /\ UNCHANGED <<notRate, rl_count, rl_ttl, rl_window, rl_current, rl_seen,
                   rl_checks>>

\* Redis removes the key when its expiry is reached
KeyExpires ==
    /\ rl_ttl
    /\ rl_count' = 0
    /\ rl_ttl' = FALSE
    /\ rl_window' = rl_window + 1
    /\ UNCHANGED <<notRate, rl_pc, rl_current, rl_seen, rl_requests,
                   rl_checks>>

RateLimitNext ==
    \/ \E q \in Requests : ReadCounter(q)
    \/ \E q \in Requests : RedisFails(q)
    \/ \E q \in Requests : Increment(q)
    \/ \E q \in Requests : SendHttp(q)
    \/ KeyExpires

RateLimitSpec == RateLimitInit /\ [][RateLimitNext]_vars

----------------------------------------------------------------------------
(* Stored credentials: backend/app/services/credential_service.py           *)
(*   store_oauth_credentials, get_credentials;                             *)
(*   backend/app/models/encrypted_credential.py (no unique constraint on   *)
(*   integration_id and credential_type).                                  *)
(* The callers (the OAuth callback, refresh_token) run in sessions of      *)
(* their own; a call is cut at its awaits (the select, the commit).        *)

notCred == <<coreVars, rateVars, expiryVars, apiVars, structuredVars,
             builtinVars, toolRegistryVars, conversationVars, entityVars,
             listVars, permissionVars>>

CredentialInit ==
    /\ CoreIdle
    /\ RateIdle
    /\ ExpiryIdle
    /\ ApiIdle
    /\ StructuredIdle
    /\ BuiltinIdle
    /\ ToolRegistryIdle
    /\ ConversationIdle
    /\ EntityIdle
    /\ ListIdle
    /\ PermissionIdle
    /\ cred_rows = <<>>
    /\ cred_issued = 0
    /\ cred_latest = 0
    /\ st_pc = [s \in Sessions |-> "idle"]
    /\ st_token = [s \in Sessions |-> 0]
    /\ st_found = [s \in Sessions |-> NoRow]
    /\ cred_read = NoRow

\* EncryptedCredential(encrypted_value=..., encrypted_refresh_token=...)
Credential(token) == [access |-> token, refresh |-> token]

\* select(EncryptedCredential).where(integration_id, credential_type);
\* result.scalar_one_or_none()
scalar_one_or_none(rows) ==
    IF Len(rows) = 0 THEN NoRow
    ELSE IF Len(rows) = 1 THEN OneRow(1, rows[1])
    ELSE MultipleResultsFound

\* store_oauth_credentials up to the select: the tokens are encrypted and
\* the row of the integration is looked up
SelectCredential(s) ==
    /\ st_pc[s] = "idle"
    /\ cred_issued < MaxStores
    /\ cred_issued' = cred_issued + 1
    /\ st_token' = [st_token EXCEPT ![s] = cred_issued + 1]
    /\ st_found' = [st_found EXCEPT ![s] = scalar_one_or_none(cred_rows)]
    /\ st_pc' = [st_pc EXCEPT ![s] =
            IF st_found'[s] = MultipleResultsFound THEN "idle" ELSE "write"]
    /\ UNCHANGED <<notCred, cred_rows, cred_latest, cred_read>>

\* if credential: update it in place, else: session.add(new row);
\* await self.session.commit()
CommitCredential(s) ==
    /\ st_pc[s] = "write"
    /\ cred_rows' = IF st_found[s].kind = "row"
                    THEN [cred_rows EXCEPT ![st_found[s].index] =
                                Credential(st_token[s])]
                    ELSE Append(cred_rows, Credential(st_token[s]))
    /\ cred_latest' = st_token[s]
    /\ st_pc' = [st_pc EXCEPT ![s] = "idle"]
    /\ UNCHANGED <<notCred, cred_issued, st_token, st_found, cred_read>>

\* get_credentials(integration_id)
GetCredentials ==
    /\ cred_read' = scalar_one_or_none(cred_rows)
    /\ UNCHANGED <<notCred, cred_rows, cred_issued, cred_latest, st_pc,
                   st_token, st_found>>

CredentialNext ==
    \/ \E s \in Sessions : SelectCredential(s)
    \/ \E s \in Sessions : CommitCredential(s)
    \/ GetCredentials

CredentialSpec == CredentialInit /\ [][CredentialNext]_vars

----------------------------------------------------------------------------
(* The expiry test: credential_service.py is_token_expired, and            *)
(* base_platform_tool.py _get_access_token.  Times are seconds; the clock  *)
(* and the expires_in of the refreshed token are the environment.          *)

notExpiry == <<coreVars, rateVars, credVars, apiVars, structuredVars,
               builtinVars, toolRegistryVars, conversationVars, entityVars,
               listVars, permissionVars>>

ExpiryInit ==
    /\ CoreIdle
    /\ RateIdle
    /\ CredIdle
    /\ ApiIdle
    /\ StructuredIdle
    /\ BuiltinIdle
    /\ ToolRegistryIdle
    /\ ConversationIdle
    /\ EntityIdle
    /\ ListIdle
    /\ PermissionIdle
    /\ tk_now = 0
    /\ tk_expiry \in {NoExpiry} \cup {Expiry(e) : e \in ExpiresIn}
    /\ tk_check = NoCheck

\* variant: the expiry is compared without the buffer
is_token_expired_noBuffer(token_expiry, now) ==
    IF ~token_expiry.present THEN TRUE
    ELSE now >= token_expiry.at

\* if not credential.token_expiry: return True
\* return datetime.utcnow() >= (credential.token_expiry - timedelta(60 s))
is_token_expired(token_expiry, now) ==
    IF ~token_expiry.present THEN TRUE
    ELSE now >= token_expiry.at - expiry_buffer

\* _get_access_token: the stored token is returned unless is_token_expired,
\* in which case refresh_token stores a token that expires expires_in
\* seconds from now and returns it
GetAccessToken(expires_in) ==
    LET expired == is_token_expired(tk_expiry, tk_now) IN
    /\ tk_check' = [done |-> TRUE, now |-> tk_now, expiry |-> tk_expiry,
                    expired |-> expired,
                    returned |-> IF expired THEN "refreshed" ELSE "stored"]
    /\ tk_expiry' = IF expired THEN Expiry(tk_now + expires_in) ELSE tk_expiry
    /\ UNCHANGED <<notExpiry, tk_now>>

\* a second passes
ClockTick ==
    /\ tk_now < MaxTime
    /\ tk_now' = tk_now + 1
    /\ UNCHANGED <<notExpiry, tk_expiry, tk_check>>

ExpiryNext ==
    \/ \E expires_in \in ExpiresIn : GetAccessToken(expires_in)
    \/ ClockTick

ExpirySpec == ExpiryInit /\ [][ExpiryNext]_vars

----------------------------------------------------------------------------
(* The API tool: backend/app/tools/api_tool.py execute, _make_api_call,     *)
(*   _refresh_oauth_token, _validate_required_params;                      *)
(*   backend/app/utils/output_transformer.py _extract_fields.              *)
(* One call of execute, cut at its awaits (the request, the refresh).  The *)
(* endpoint and the token endpoint are the environment.                    *)

notApi == <<coreVars, rateVars, credVars, expiryVars, structuredVars,
            builtinVars, toolRegistryVars, conversationVars, entityVars,
            listVars, permissionVars>>

\* a field that input_data does not have
Absent == [t |-> "absent", v |-> <<>>]

\* input_data as a dict, from the value given (or not) for each field
InputDict(given) ==
    LET present == SelectSeq(InputFields, LAMBDA n : given[n] # Absent)
    IN  [i \in 1..Len(present) |-> Item(present[i], given[present[i]])]

Inputs ==
    {InputDict(given) :
        given \in [{InputFields[i] : i \in 1..Len(InputFields)} ->
                        InputValues \cup {Absent}]}

Configs ==
    {[required |-> r, authentication |-> a, refresh_configured |-> c,
      access_token |-> 1, output_mode |-> "full", output_mapping |-> <<>>] :
        r \in {<<>>, <<"city">>, <<"city", "count">>},
        a \in {"oauth", "bearer"}, c \in BOOLEAN}
    \cup
    {[required |-> <<>>, authentication |-> a, refresh_configured |-> TRUE,
      access_token |-> 1, output_mode |-> "extract",
      output_mapping |-> Mappings[m]] :
        a \in {"oauth", "bearer"}, m \in 1..Len(Mappings)}

ApiToolInit ==
    /\ CoreIdle
    /\ RateIdle
    /\ CredIdle
    /\ ExpiryIdle
    /\ StructuredIdle
    /\ BuiltinIdle
    /\ ToolRegistryIdle
    /\ ConversationIdle
    /\ EntityIdle
    /\ ListIdle
    /\ PermissionIdle
    /\ api_config \in {c \in Configs :
                          c.authentication = "bearer" => ~c.refresh_configured
                                                         \/ c.output_mode = "extract"}
    /\ api_input \in Inputs
    /\ api_pc = "start"
    /\ api_attempt = 0
    /\ api_headers = 0
    /\ api_requests = <<>>
    /\ api_statuses = <<>>
    /\ api_refreshes = <<>>
    /\ api_response = NoResponse
    /\ api_result = NoResult

\* Python's truth value of a JSON value: not "", not 0, not None, not empty
Truthy(value) ==
    CASE value.t = "num" -> value.v[1] # 0
      [] value.t = "none" -> FALSE
      [] OTHER -> Len(value.v) > 0

\* variant: only the presence of the field is tested
validate_required_params_presenceOnly(config, input_data) ==
    LET missing_fields ==
            SelectSeq(config.required, LAMBDA field : ~DictHas(input_data, field))
    IN  IF Len(missing_fields) = 0 THEN <<>>
        ELSE <<"Missing required parameters">> \o missing_fields

\* _validate_required_params: the error message, or <<>> for None
validate_required_params(config, input_data) ==
    LET missing_fields ==
            SelectSeq(config.required,
                      LAMBDA field : \/ ~DictHas(input_data, field)
                                     \/ ~Truthy(DictGet(input_data, field, None)))
    IN  IF Len(missing_fields) = 0 THEN <<>>
        ELSE <<"Missing required parameters">> \o missing_fields

\* _build_headers: the Authorization header of the oauth and bearer modes
build_headers(config) == config.access_token

\* return {"success": False, "error": ...}, also from the except of execute
Failure(error) == [returned |-> TRUE, success |-> FALSE, error |-> error,
                   data |-> None]

\* return {"success": True, "data": result}
Success(result) == [returned |-> TRUE, success |-> TRUE, error |-> <<>>,
                    data |-> result]

RECURSIVE ConcatAll(_)
ConcatAll(seqs) ==
    IF Len(seqs) = 0 THEN <<>> ELSE Head(seqs) \o ConcatAll(Tail(seqs))

\* jsonpath_ng: what one step of a path finds in one value.  A field finds
\* the value of that key of a dict; [i] finds the i-th element (counted
\* from 0) of a value that has one and raises on a non-empty value that
\* cannot be indexed so; [*] finds every element of a list, and treats a
\* dict or a constant as a list of one
StepFind(step, value) ==
    CASE step.step = "field" ->
            [raised |-> FALSE,
             matches |-> IF value.t = "dict" /\ DictHas(value.v, step.name)
                         THEN <<DictGet(value.v, step.name, None)>>
                         ELSE <<>>]
      [] step.step = "index" ->
            IF ~Truthy(value) \/ Len(value.v) <= step.index
            THEN [raised |-> FALSE, matches |-> <<>>]
            ELSE IF value.t = "list"
            THEN [raised |-> FALSE, matches |-> <<value.v[step.index + 1]>>]
            ELSE [raised |-> TRUE, matches |-> <<>>]
      [] OTHER ->
            [raised |-> FALSE,
             matches |-> IF ~Truthy(value) THEN <<>>
                         ELSE IF value.t = "list" THEN value.v
                         ELSE <<value>>]

\* jsonpath.find(data): the values at the path, in document order
RECURSIVE jsonpath_find(_, _)
jsonpath_find(steps, values) ==
    IF Len(steps) = 0 THEN [raised |-> FALSE, matches |-> values]
    ELSE LET found == [i \in 1..Len(values) |-> StepFind(Head(steps), values[i])]
         IN  IF \E i \in 1..Len(values) : found[i].raised
             THEN [raised |-> TRUE, matches |-> <<>>]
             ELSE jsonpath_find(Tail(steps),
                      ConcatAll([i \in 1..Len(values) |-> found[i].matches]))

\* the body of the loop of _extract_fields for one output field
ExtractField(data, jsonpath_expr) ==
    IF ~jsonpath_expr.valid THEN None
    ELSE LET found == jsonpath_find(jsonpath_expr.steps, <<data>>)
         IN  IF found.raised THEN None
             ELSE IF Len(found.matches) = 0 THEN None
             ELSE IF Len(found.matches) = 1 THEN found.matches[1]
             ELSE List(found.matches)

\* variant: a field without a match is left out of the result
extract_fields_skipMissing(data, mapping) ==
    LET kept == SelectSeq(mapping,
                    LAMBDA m : ExtractField(data, m.v) # None)
    IN  Dict([i \in 1..Len(kept) |->
                 Item(kept[i].k, ExtractField(data, kept[i].v))])

\* OutputTransformer._extract_fields
extract_fields(data, mapping) ==
    Dict([i \in 1..Len(mapping) |->
             Item(mapping[i].k, ExtractField(data, mapping[i].v))])

\* execute: the output transformation of the modes "full" and "extract"
Transform(config, response) ==
    IF config.output_mode = "extract"
    THEN extract_fields(response, config.output_mapping)
    ELSE response

\* except httpx.HTTPStatusError as e: if e.response.status_code == 401 and
\* attempt == 0: continue; raise
AfterStatusError(status, pass) ==
    IF status = 401 /\ pass = 0 THEN "continue" ELSE "raise"

\* execute up to the first await: validation, _build_headers
ValidateInput ==
    /\ api_pc = "start"
    /\ LET validation_error == validate_required_params(api_config, api_input)
       IN  IF Len(validation_error) > 0
           THEN /\ api_result' = Failure(validation_error)
                /\ api_pc' = "done"
                /\ UNCHANGED api_headers
           ELSE /\ api_headers' = build_headers(api_config)
                /\ api_pc' = "send"
                /\ UNCHANGED api_result
    /\ UNCHANGED <<notApi, api_config, api_input, api_attempt, api_requests,
                   api_statuses, api_refreshes, api_response>>

\* response = await client.send(request) and what follows it in the pass of
\* the loop, up to the return of execute when the call ends here
SendApiRequest(response) ==
    /\ api_pc = "send"
    /\ api_requests' = Append(api_requests, api_headers)
    /\ api_statuses' = Append(api_statuses, response.status)
    /\ IF response.kind = "network"
       THEN /\ api_result' = Failure(<<"RequestError">>)
            /\ api_pc' = "done"
            /\ UNCHANGED <<api_attempt, api_response>>
       ELSE IF /\ response.status = 401
               /\ api_config.authentication = "oauth"
               /\ api_attempt = 0
       THEN /\ api_pc' = "refresh"
            /\ UNCHANGED <<api_attempt, api_response, api_result>>
       ELSE IF response.status >= 400
       THEN IF AfterStatusError(response.status, api_attempt) = "continue"
            THEN /\ api_attempt' = api_attempt + 1
                 /\ api_pc' = "send"
                 /\ UNCHANGED <<api_response, api_result>>
            ELSE /\ api_result' = Failure(<<"HTTPStatusError">>)
                 /\ api_pc' = "done"
                 /\ UNCHANGED <<api_attempt, api_response>>
       ELSE IF response.body = -1
       THEN /\ api_result' = Failure(<<"API returned non-JSON response">>)
            /\ api_pc' = "done"
            /\ UNCHANGED <<api_attempt, api_response>>
       ELSE /\ api_response' = IF response.body = 0 THEN Dict(<<>>)
                               ELSE Bodies[response.body]
            /\ api_result' = Success(Transform(api_config, api_response'))
            /\ api_pc' = "done"
            /\ UNCHANGED api_attempt
    /\ UNCHANGED <<notApi, api_config, api_input, api_headers, api_refreshes>>

\* await self._refresh_oauth_token(); headers = await self._build_headers();
\* continue
RefreshOAuthToken(refresh_outcome) ==
    /\ api_pc = "refresh"
    /\ LET refreshed == IF api_config.refresh_configured THEN refresh_outcome
                      ELSE "not_configured"
       IN
       /\ api_refreshes' = Append(api_refreshes, refreshed)
       /\ CASE refreshed = "ok" ->
                /\ api_config' = [api_config EXCEPT !.access_token = @ + 1]
                /\ api_headers' = build_headers(api_config')
                /\ api_attempt' = api_attempt + 1
                /\ api_pc' = "send"
                /\ UNCHANGED api_result
            [] refreshed = "not_configured" ->
                /\ api_result' = Failure(<<"OAuth refresh token or token URL not configured">>)
                /\ api_pc' = "done"
                /\ UNCHANGED <<api_config, api_headers, api_attempt>>
            [] refreshed = "network" ->
                /\ api_result' = Failure(<<"RequestError">>)
                /\ api_pc' = "done"
                /\ UNCHANGED <<api_config, api_headers, api_attempt>>
            [] OTHER ->
                LET status == IF refreshed = "status_401" THEN 401 ELSE 400 IN
                IF AfterStatusError(status, api_attempt) = "continue"
                THEN /\ api_attempt' = api_attempt + 1
                     /\ api_pc' = "send"
                     /\ UNCHANGED <<api_config, api_headers, api_result>>
                ELSE /\ api_result' = Failure(<<"HTTPStatusError">>)
                     /\ api_pc' = "done"
                     /\ UNCHANGED <<api_config, api_headers, api_attempt>>
    /\ UNCHANGED <<notApi, api_input, api_requests, api_statuses,
                   api_response>>

ApiToolNext ==
    \/ ValidateInput
    \/ \E response \in ApiResponses : SendApiRequest(response)
    \/ \E refresh_outcome \in RefreshOutcomes : RefreshOAuthToken(refresh_outcome)

ApiToolSpec == ApiToolInit /\ [][ApiToolNext]_vars

----------------------------------------------------------------------------
(* Structured output: generate_structured_output of                         *)
(*   backend/app/llm/openai_provider.py, anthropic_provider.py and         *)
(*   google_provider.py.  The method is cut at its provider calls; what    *)
(* the provider answers is the environment.                                *)

notStructured == <<coreVars, rateVars, credVars, expiryVars, apiVars,
                   builtinVars, toolRegistryVars, conversationVars,
                   entityVars, listVars, permissionVars>>

\* what a provider call gives: an API error, or a text that is a JSON
\* object, a JSON object inside other text, not JSON, or nothing
Replies == {"error", "json", "json_in_text", "not_json", "empty"}

StructuredInit ==
    /\ CoreIdle
    /\ RateIdle
    /\ CredIdle
    /\ ExpiryIdle
    /\ ApiIdle
    /\ BuiltinIdle
    /\ ToolRegistryIdle
    /\ ConversationIdle
    /\ EntityIdle
    /\ ListIdle
    /\ PermissionIdle
    /\ so_provider \in Providers
    /\ so_system \in BOOLEAN
    /\ so_pc = "start"
    /\ so_generation = 1
    /\ so_calls = <<>>
    /\ so_results = <<>>

\* the first provider call of the method: openai asks for the json_schema
\* response format with strict true, google passes response_schema in the
\* generation config, anthropic only writes the schema into the system
\* prompt
FirstCallMode(provider) ==
    IF provider = "anthropic" THEN "prompt" ELSE "strict"

\* json.loads(content or "{}") of the openai strict call;
\* json.loads(response.text) of google
LoadsWhole(provider, reply) ==
    \/ reply = "json"
    \/ reply = "empty" /\ provider = "openai"

\* text[text.find('{') : text.rfind('}') + 1], then json.loads; without a
\* text the openai fallback loads "{}" and anthropic returns {}
LoadsObjectInText(reply) == reply \in {"json", "json_in_text", "empty"}

\* whether the first call ends in an exception
FirstCallFails(provider, reply) ==
    \/ reply = "error"
    \/ IF provider = "anthropic" THEN ~LoadsObjectInText(reply)
       ELSE ~LoadsWhole(provider, reply)

\* where an exception of the first call goes: openai has it inside try and
\* falls back, the other adapters let it leave the method
AfterFirstFailure(provider) ==
    IF provider = "openai" THEN "fallback" ELSE "raised"

ProviderCall(mode, reply, failed) ==
    [generation |-> so_generation, mode |-> mode, reply |-> reply,
     failed |-> failed]

\* the method up to the end of its first provider call
FirstCall(reply) ==
    /\ so_pc = "start"
    /\ LET failed == FirstCallFails(so_provider, reply) IN
       /\ so_calls' = Append(so_calls,
                             ProviderCall(FirstCallMode(so_provider), reply,
                                          failed))
       /\ IF ~failed
          THEN /\ so_results' = Append(so_results, "returned")
               /\ so_pc' = "done"
          ELSE IF AfterFirstFailure(so_provider) = "fallback"
          THEN /\ so_pc' = "fallback"
               /\ UNCHANGED so_results
          ELSE /\ so_results' = Append(so_results, "raised")
               /\ so_pc' = "done"
    /\ UNCHANGED <<notStructured, so_provider, so_system, so_generation>>

\* openai, except Exception: the json_object call with the schema in the
\* system prompt; its exceptions leave the method
FallbackCall(reply) ==
    /\ so_pc = "fallback"
    /\ LET failed == reply = "error" \/ ~LoadsObjectInText(reply) IN
       /\ so_calls' = Append(so_calls, ProviderCall("prompt", reply, failed))
       /\ so_results' = Append(so_results,
                               IF failed THEN "raised" ELSE "returned")
    /\ so_pc' = "done"
    /\ UNCHANGED <<notStructured, so_provider, so_system, so_generation>>

\* the caller calls the method again
NextGeneration ==
    /\ so_pc = "done"
    /\ so_generation < MaxGenerations
    /\ so_generation' = so_generation + 1
    /\ so_pc' = "start"
    /\ UNCHANGED <<notStructured, so_provider, so_system, so_calls,
                   so_results>>

StructuredNext ==
    \/ \E reply \in Replies : FirstCall(reply)
    \/ \E reply \in Replies : FallbackCall(reply)
    \/ NextGeneration

StructuredSpec == StructuredInit /\ [][StructuredNext]_vars

----------------------------------------------------------------------------
(* Builtin tools: backend/app/tools/builtin_tool.py BuiltinTool.execute     *)
(*   and the builtin functions create_agent, create_integration,           *)
(*   create_api_tool.  The outcome of the function is the environment.     *)

notBuiltin == <<coreVars, rateVars, credVars, expiryVars, apiVars,
                structuredVars, toolRegistryVars, conversationVars,
                entityVars, listVars, permissionVars>>

BuiltinInit ==
    /\ CoreIdle
    /\ RateIdle
    /\ CredIdle
    /\ ExpiryIdle
    /\ ApiIdle
    /\ StructuredIdle
    /\ ToolRegistryIdle
    /\ ConversationIdle
    /\ EntityIdle
    /\ ListIdle
    /\ PermissionIdle
    /\ bt_function \in FunctionNames
    /\ bt_sessions \in
          {[s \in SessionNames |-> IF s = "caller" THEN OpenSession(pending)
                                   ELSE ClosedSession] :
              pending \in SUBSET {"conversation", "user_message"}}
    /\ bt_db = {}
    /\ bt_pc = "start"
    /\ bt_executions = 0
    /\ bt_log = <<>>
    /\ bt_result = NoResult

\* BUILTIN_FUNCTIONS.get(self.function_name)
BuiltinFunction(function_name) ==
    IF function_name = "unknown" THEN "none" ELSE function_name

\* the object a builtin function adds
Created(function_name) ==
    CASE function_name = "create_agent" -> "agent"
      [] function_name = "create_integration" -> "integration"
      [] OTHER -> "tool"

\* variant: the function is given the session of the tool
FunctionSession_callers == "caller"

\* function(session=new_session, ...)
FunctionSession == "new"

\* session.add; flush; refresh; commit, up to the point where the function
\* raises or returns
RunInSession(session, function_name, function_outcome) ==
    CASE function_outcome = "bad_arguments" -> session
      [] function_outcome = "flush_fails" ->
            [session EXCEPT !.pending = @ \cup {Created(function_name)},
                            !.failed = TRUE]
      [] function_outcome = "commit_fails" ->
            [session EXCEPT !.pending = @ \cup {Created(function_name)},
                            !.failed = TRUE]
      [] OTHER -> [session EXCEPT !.pending = {}]

\* execute up to async with async_session_maker() as new_session
BeginExecute ==
    /\ bt_pc = "start"
    /\ bt_executions < MaxExecutions
    /\ bt_executions' = bt_executions + 1
    /\ IF BuiltinFunction(bt_function) = "none"
       THEN /\ bt_result' = Failure(<<"Unknown function: ", bt_function>>)
            /\ bt_pc' = "start"
            /\ UNCHANGED bt_sessions
       ELSE /\ bt_sessions' = [bt_sessions EXCEPT !["new"] = OpenSession({})]
            /\ bt_pc' = "call"
            /\ bt_result' = NoResult
    /\ UNCHANGED <<notBuiltin, bt_function, bt_db, bt_log>>

\* result = await function(session=..., ...), the exit of async with, and
\* the return of execute
RunFunction(function_outcome) ==
    /\ bt_pc = "call"
    /\ LET ran == [bt_sessions EXCEPT ![FunctionSession] =
                       RunInSession(@, bt_function, function_outcome)]
       IN  bt_sessions' = [ran EXCEPT !["new"] = ClosedSession]
    /\ bt_db' = IF function_outcome = "ok"
                THEN bt_db \cup
                     {[object |-> o, execution |-> bt_executions] :
                         o \in bt_sessions[FunctionSession].pending
                                   \cup {Created(bt_function)}}
                ELSE bt_db
    /\ bt_log' = Append(bt_log, [session |-> FunctionSession,
                                 outcome |-> function_outcome])
    /\ bt_result' = IF function_outcome = "ok"
                    THEN Success(Str(<<Created(bt_function)>>))
                    ELSE Failure(<<function_outcome>>)
    /\ bt_pc' = "start"
    /\ UNCHANGED <<notBuiltin, bt_function, bt_executions>>

BuiltinNext ==
    \/ BeginExecute
    \/ \E function_outcome \in FunctionOutcomes : RunFunction(function_outcome)

BuiltinSpec == BuiltinInit /\ [][BuiltinNext]_vars

----------------------------------------------------------------------------
(* The ToolRegistry class: backend/app/tools/registry.py __new__, register, *)
(*   unregister, get, list_tools, clear.  Two users construct it and call  *)
(*   its methods in any order.                                             *)

notToolRegistry == <<coreVars, rateVars, credVars, expiryVars, apiVars,
                     structuredVars, builtinVars, conversationVars,
                     entityVars, listVars, permissionVars>>

ToolRegistryInit ==
    /\ CoreIdle
    /\ RateIdle
    /\ CredIdle
    /\ ExpiryIdle
    /\ ApiIdle
    /\ StructuredIdle
    /\ BuiltinIdle
    /\ ConversationIdle
    /\ EntityIdle
    /\ ListIdle
    /\ PermissionIdle
    /\ tr_instance = 0
    /\ tr_objects = <<>>
    /\ tr_refs = [c \in Clients |-> 0]
    /\ tr_log = <<>>

\* variant: every construction makes an instance
ToolRegistry_new_always(instance, objects) ==
    [instance |-> Len(objects) + 1, objects |-> Append(objects, <<>>)]

\* __new__: if cls._instance is None: cls._instance = super().__new__(cls);
\* cls._instance._tools = {}; return cls._instance
ToolRegistry_new(instance, objects) ==
    IF instance = 0
    THEN [instance |-> Len(objects) + 1, objects |-> Append(objects, <<>>)]
    ELSE [instance |-> instance, objects |-> objects]

\* self._tools[tool_name] = tool
ToolRegistry_register(tools, tool_name, tool) == DictSet(tools, tool_name, tool)

\* variant: unregister leaves the dict as it is
ToolRegistry_unregister_keeps(tools, tool_name) == tools

\* if tool_name in self._tools: del self._tools[tool_name]
ToolRegistry_unregister(tools, tool_name) ==
    IF DictHas(tools, tool_name)
    THEN SelectSeq(tools, LAMBDA item : item.k # tool_name)
    ELSE tools

\* self._tools.get(tool_name)
ToolRegistry_get(tools, tool_name) == DictGet(tools, tool_name, NoTool)

\* list(self._tools.keys())
ToolRegistry_list_tools(tools) == [i \in 1..Len(tools) |-> tools[i].k]

\* self._tools.clear()
ToolRegistry_clear(tools) == <<>>

MethodCall(c, op, tool_name, tool, listed) ==
    [client |-> c, op |-> op, name |-> tool_name, tool |-> tool,
     listed |-> listed]

\* registry = ToolRegistry()
Construct(c) ==
    /\ tr_refs[c] = 0
    /\ LET made == ToolRegistry_new(tr_instance, tr_objects) IN
       /\ tr_instance' = made.instance
       /\ tr_objects' = made.objects
       /\ tr_refs' = [tr_refs EXCEPT ![c] = made.instance]
    /\ UNCHANGED <<notToolRegistry, tr_log>>

\* registry.register(tool_name, tool)
Register(c, tool_name, tool) ==
    /\ tr_refs[c] # 0
    /\ Len(tr_log) < MaxOps
    /\ tr_objects' = [tr_objects EXCEPT ![tr_refs[c]] =
                          ToolRegistry_register(@, tool_name, tool)]
    /\ tr_log' = Append(tr_log, MethodCall(c, "register", tool_name, tool, <<>>))
    /\ UNCHANGED <<notToolRegistry, tr_instance, tr_refs>>

\* registry.unregister(tool_name)
Unregister(c, tool_name) ==
    /\ tr_refs[c] # 0
    /\ Len(tr_log) < MaxOps
    /\ tr_objects' = [tr_objects EXCEPT ![tr_refs[c]] =
                          ToolRegistry_unregister(@, tool_name)]
    /\ tr_log' = Append(tr_log,
                        MethodCall(c, "unregister", tool_name, NoTool, <<>>))
    /\ UNCHANGED <<notToolRegistry, tr_instance, tr_refs>>

\* registry.clear()
Clear(c) ==
    /\ tr_refs[c] # 0
    /\ Len(tr_log) < MaxOps
    /\ tr_objects' = [tr_objects EXCEPT ![tr_refs[c]] = ToolRegistry_clear(@)]
    /\ tr_log' = Append(tr_log, MethodCall(c, "clear", "", NoTool, <<>>))
    /\ UNCHANGED <<notToolRegistry, tr_instance, tr_refs>>

\* registry.get(tool_name)
Get(c, tool_name) ==
    /\ tr_refs[c] # 0
    /\ Len(tr_log) < MaxOps
    /\ tr_log' = Append(tr_log,
            MethodCall(c, "get", tool_name,
                       ToolRegistry_get(tr_objects[tr_refs[c]], tool_name),
                       <<>>))
    /\ UNCHANGED <<notToolRegistry, tr_instance, tr_objects, tr_refs>>

\* registry.list_tools()
ListTools(c) ==
    /\ tr_refs[c] # 0
    /\ Len(tr_log) < MaxOps
    /\ tr_log' = Append(tr_log,
            MethodCall(c, "list_tools", "", NoTool,
                       ToolRegistry_list_tools(tr_objects[tr_refs[c]])))
    /\ UNCHANGED <<notToolRegistry, tr_instance, tr_objects, tr_refs>>

ToolRegistryNext ==
    \/ \E c \in Clients : Construct(c)
    \/ \E c \in Clients, tool_name \in ToolNames, tool \in ToolObjects :
          Register(c, tool_name, tool)
    \/ \E c \in Clients, tool_name \in ToolNames : Unregister(c, tool_name)
    \/ \E c \in Clients : Clear(c)
    \/ \E c \in Clients, tool_name \in ToolNames : Get(c, tool_name)
    \/ \E c \in Clients : ListTools(c)

ToolRegistrySpec == ToolRegistryInit /\ [][ToolRegistryNext]_vars

----------------------------------------------------------------------------
(* Stored conversations: backend/app/services/conversation_service.py       *)
(*   get_or_create_conversation, get_conversation_by_id, save_message,     *)
(*   get_conversation_history; steps 3, 4, 5 and 9 of                      *)
(*   execute_conversation.  The agent, the conversation_id of the request  *)
(*   and the messages already stored are the environment.                  *)

notConversation == <<coreVars, rateVars, credVars, expiryVars, apiVars,
                     structuredVars, builtinVars, toolRegistryVars,
                     entityVars, listVars, permissionVars>>

\* the messages an earlier use of the conversation has left: user and agent
\* messages in turn
StoredRows(conversation_id, n) ==
    [i \in 1..n |-> [conversation_id |-> conversation_id,
                     role |-> IF i % 2 = 1 THEN "user" ELSE "agent",
                     content |-> <<i>>]]

ConversationInit ==
    /\ CoreIdle
    /\ RateIdle
    /\ CredIdle
    /\ ExpiryIdle
    /\ ApiIdle
    /\ StructuredIdle
    /\ BuiltinIdle
    /\ ToolRegistryIdle
    /\ EntityIdle
    /\ ListIdle
    /\ PermissionIdle
    /\ cv_conversations = <<[agent_id |-> "a1"]>>
    /\ \E n \in StoredMessages : cv_messages = StoredRows(1, n)
    /\ ex_pc = "idle"
    /\ ex_agent = "a1"
    /\ ex_conversation = 0
    /\ ex_content = <<>>
    /\ ex_sent = <<>>
    /\ ex_runs = 0

\* get_conversation_by_id: scalar_one_or_none of the row with that id
get_conversation_by_id(rows, conversation_id) ==
    IF conversation_id \in 1..Len(rows) THEN conversation_id
    ELSE NoConversation

\* get_or_create_conversation: the rows afterwards and the id returned
get_or_create_conversation(rows, agent_id, conversation_id) ==
    LET found == IF conversation_id # NoConversation
                 THEN get_conversation_by_id(rows, conversation_id)
                 ELSE NoConversation
    IN  IF found # NoConversation
        THEN [rows |-> rows, id |-> found]
        ELSE [rows |-> Append(rows, [agent_id |-> agent_id]),
              id |-> Len(rows) + 1]

\* where(Message.conversation_id == conversation_id)
MessagesOf(messages, conversation_id) ==
    SelectSeq(messages, LAMBDA m : m.conversation_id = conversation_id)

\* get_conversation_history(conversation_id)
get_conversation_history(messages, conversation_id) ==
    HistoryOf(MessagesOf(messages, conversation_id))

\* save_message
save_message(messages, conversation_id, role, content) ==
    Append(messages, [conversation_id |-> conversation_id, role |-> role,
                      content |-> content])

\* 3. Get or create conversation
GetOrCreateConversation(agent_id, conversation_id) ==
    LET got == get_or_create_conversation(cv_conversations, agent_id,
                                          conversation_id)
    IN
    /\ ex_pc = "idle"
    /\ ex_runs < MaxConversationRuns
    /\ ex_runs' = ex_runs + 1
    /\ ex_agent' = agent_id
    /\ cv_conversations' = got.rows
    /\ ex_conversation' = got.id
    /\ ex_content' = <<>>
    /\ ex_sent' = <<>>
    /\ ex_pc' = "conversation"
    /\ UNCHANGED <<notConversation, cv_messages>>

\* 4. Save user message
SaveUserMessage ==
    /\ ex_pc = "conversation"
    /\ ex_content' = <<Len(cv_messages) + 1>>
    /\ cv_messages' = save_message(cv_messages, ex_conversation, "user",
                                   ex_content')
    /\ ex_pc' = "saved"
    /\ UNCHANGED <<notConversation, cv_conversations, ex_agent,
                   ex_conversation, ex_sent, ex_runs>>

\* 5. Build conversation history; 9. the first model turn is requested with
\* conversation_messages = history.copy()
FirstTurn ==
    /\ ex_pc = "saved"
    /\ ex_sent' = get_conversation_history(cv_messages, ex_conversation)
    /\ ex_pc' = "turn"
    /\ UNCHANGED <<notConversation, cv_conversations, cv_messages, ex_agent,
                   ex_conversation, ex_content, ex_runs>>

\* the model answers without tools: the agent response is saved
SaveAgentResponse ==
    /\ ex_pc = "turn"
    /\ cv_messages' = save_message(cv_messages, ex_conversation, "agent",
                                   <<Len(cv_messages) + 1>>)
    /\ ex_pc' = "idle"
    /\ UNCHANGED <<notConversation, cv_conversations, ex_agent,
                   ex_conversation, ex_content, ex_sent, ex_runs>>

ConversationNext ==
    \/ \E agent_id \in Agents, conversation_id \in ConversationIds :
          GetOrCreateConversation(agent_id, conversation_id)
    \/ SaveUserMessage
    \/ FirstTurn
    \/ SaveAgentResponse

ConversationSpec == ConversationInit /\ [][ConversationNext]_vars

----------------------------------------------------------------------------
(* Created entities: execution_service.py execute_conversation, the         *)
(*   tracking of identifiers after a successful tool call and the          *)
(*   annotation of the tool-result entries.  The tool results have the     *)
(*   shapes the tools build: api_tool.py and builtin_tool.py execute,      *)
(*   publications_tool.py _create_item and _delete_item, llm_tool.py       *)
(*   execute.                                                              *)

notEntity == <<coreVars, rateVars, credVars, expiryVars, apiVars,
               structuredVars, builtinVars, toolRegistryVars,
               conversationVars, listVars, permissionVars>>

\* Python's True and False
Bool(b) == [t |-> "bool", v |-> IF b THEN <<TRUE>> ELSE <<>>]

\* APITool.execute and BuiltinTool.execute: {"success": True, "data": result}
DataResult(result) ==
    Dict(<<Item("success", Bool(TRUE)), Item("data", result)>>)

\* _create_item, _delete_item: {"success": True, "item_id": ..., "status": ...}
ItemResult(item_id) ==
    Dict(<<Item("success", Bool(TRUE)), Item("item_id", item_id),
           Item("status", Str(<<"active">>))>>)

\* LLMTool.execute with an output schema: {"success": True, **structured_result}
StructuredResult(structured_result) ==
    Dict(<<Item("success", Bool(TRUE))>> \o structured_result)

\* LLMTool.execute without one: {"success": True, "result": response_text}
FreeformResult(response_text) ==
    Dict(<<Item("success", Bool(TRUE)), Item("result", response_text)>>)

\* {"success": False, "error": ...}
ErrorResult(error) ==
    Dict(<<Item("success", Bool(FALSE)), Item("error", error)>>)

\* what the tools of an execution return
ToolResults ==
    { DataResult(Dict(<<Item("id", Num(7))>>)),
      DataResult(Dict(<<Item("id", Str(<<"a9">>)), Item("name", Str(<<"n">>))>>)),
      ItemResult(Str(<<"MLA1">>)),
      StructuredResult(<<Item("result", Dict(<<Item("order_id", Num(3))>>))>>),
      StructuredResult(<<Item("result", Dict(<<Item("id", Str(<<>>))>>))>>),
      FreeformResult(Str(<<"text">>)),
      ErrorResult(Str(<<"failed">>)) }

EntityInit ==
    /\ CoreIdle
    /\ RateIdle
    /\ CredIdle
    /\ ExpiryIdle
    /\ ApiIdle
    /\ StructuredIdle
    /\ BuiltinIdle
    /\ ToolRegistryIdle
    /\ ConversationIdle
    /\ ListIdle
    /\ PermissionIdle
    /\ ent_created = <<>>
    /\ ent_calls = <<>>
    /\ ent_turn = <<>>
    /\ ent_entries = <<>>

common_id_keys ==
    <<"id", "chart_id", "item_id", "integration_id", "user_id", "product_id",
      "publication_id", "order_id", "category_id", "grid_id", "size_grid_id">>

\* tool_result.get("success", True)
ToolSuccess(tool_result) ==
    Truthy(DictGet(tool_result.v, "success", Bool(TRUE)))

\* tool_result.get("result", {}) if isinstance(tool_result.get("result"),
\* dict) else {}
ResultData(tool_result) ==
    LET result == DictGet(tool_result.v, "result", None)
    IN  IF result.t = "dict" THEN result.v ELSE <<>>

\* for key in common_id_keys: if key in result_data and result_data[key]:
\*     created_entities[key] = result_data[key]
RECURSIVE TrackFrom(_, _, _)
TrackFrom(created_entities, result_data, i) ==
    IF i > Len(common_id_keys) THEN created_entities
    ELSE LET key == common_id_keys[i]
             tracked ==
                 IF /\ DictHas(result_data, key)
                    /\ Truthy(DictGet(result_data, key, None))
                 THEN DictSet(created_entities, key,
                              DictGet(result_data, key, None))
                 ELSE created_entities
         IN  TrackFrom(tracked, result_data, i + 1)

\* the created entities after one tool call
TrackEntities(created_entities, tool_result) ==
    IF ToolSuccess(tool_result)
    THEN TrackFrom(created_entities, ResultData(tool_result), 1)
    ELSE created_entities

\* entities_info: empty, or the k=v pairs of created_entities in order
EntitiesInfo(created_entities) ==
    [i \in 1..Len(created_entities) |->
        <<created_entities[i].k, created_entities[i].v>>]

\* the stream yields tool_use_start: the tool is executed and its result
\* tracked
ToolCallCompletes(tool_result) ==
    /\ Len(ent_calls) < MaxEntityCalls
    /\ ent_created' = TrackEntities(ent_created, tool_result)
    /\ ent_turn' = Append(ent_turn, tool_result)
    /\ ent_calls' = Append(ent_calls, tool_result)
    /\ UNCHANGED <<notEntity, ent_entries>>

\* the turn ends with tool uses: one result entry per tool use
AppendResultEntries ==
    /\ Len(ent_turn) > 0
    /\ ent_entries' = ent_entries \o
          [i \in 1..Len(ent_turn) |->
              [tool_result |-> ent_turn[i],
               calls |-> Len(ent_calls),
               entities_info |-> EntitiesInfo(ent_created)]]
    /\ ent_turn' = <<>>
    /\ UNCHANGED <<notEntity, ent_created, ent_calls>>

EntityNext ==
    \/ \E tool_result \in ToolResults : ToolCallCompletes(tool_result)
    \/ AppendResultEntries

EntitySpec == EntityInit /\ [][EntityNext]_vars

----------------------------------------------------------------------------
(* The publications list: tools/platforms/mercadolibre/publications_tool.py *)
(*   _list_items and its inner fetch_item_details.  The coroutines that    *)
(*   asyncio.gather runs finish in any order; the search response and the  *)
(*   outcome of every detail request are the environment.                  *)

notList == <<coreVars, rateVars, credVars, expiryVars, apiVars,
             structuredVars, builtinVars, toolRegistryVars, conversationVars,
             entityVars, permissionVars>>

ItemIds == 1..MaxItems

\* the id lists a search can answer with: distinct ids in any order
ItemIdLists ==
    UNION {{ids \in [1..n -> ItemIds] :
               \A i, j \in 1..n : ids[i] = ids[j] => i = j} : n \in 0..MaxItems}

NoListResult == [returned |-> FALSE, success |-> FALSE, items |-> <<>>]

ListInit ==
    /\ CoreIdle
    /\ RateIdle
    /\ CredIdle
    /\ ExpiryIdle
    /\ ApiIdle
    /\ StructuredIdle
    /\ BuiltinIdle
    /\ ToolRegistryIdle
    /\ ConversationIdle
    /\ EntityIdle
    /\ PermissionIdle
    /\ li_pc = "start"
    /\ li_ids = <<>>
    /\ li_tasks = <<>>
    /\ li_fetched = <<>>
    /\ li_finished = <<>>
    /\ li_result = NoListResult

\* fetch_item_details: the details of the item, or the id with the error
fetch_item_details(item_id, ok) ==
    IF ok THEN [id |-> item_id, error |-> <<>>, title |-> <<"item ", item_id>>]
    ELSE [id |-> item_id, error |-> <<"request failed">>, title |-> <<>>]

\* variant: the results come in the order the coroutines finished
gather_asCompleted(fetched, finished) ==
    [i \in 1..Len(finished) |-> fetched[finished[i]]]

\* asyncio.gather: the results in the order of the awaitables
gather(fetched, finished) ==
    [i \in 1..Len(fetched) |-> fetched[i]]

\* the user_id is missing: the action returns an error result
ListWithoutUser ==
    /\ li_pc = "start"
    /\ li_result' = [returned |-> TRUE, success |-> FALSE, items |-> <<>>]
    /\ li_pc' = "returned"
    /\ UNCHANGED <<notList, li_ids, li_tasks, li_fetched, li_finished>>

\* the search request is answered: one coroutine per item id is started
SearchResponds(item_ids) ==
    /\ li_pc = "start"
    /\ li_ids' = item_ids
    /\ li_tasks' = [i \in 1..Len(item_ids) |-> "running"]
    /\ li_fetched' = [i \in 1..Len(item_ids) |->
                         [id |-> 0, error |-> <<>>, title |-> <<>>]]
    /\ li_pc' = "gather"
    /\ UNCHANGED <<notList, li_finished, li_result>>

\* the search request raises: the exception leaves _list_items
SearchRaises ==
    /\ li_pc = "start"
    /\ li_pc' = "raised"
    /\ UNCHANGED <<notList, li_ids, li_tasks, li_fetched, li_finished,
                   li_result>>

\* the detail request of one coroutine is answered or raises
FetchCompletes(i, ok) ==
    /\ li_pc = "gather"
    /\ i \in 1..Len(li_ids)
    /\ li_tasks[i] = "running"
    /\ li_tasks' = [li_tasks EXCEPT ![i] = IF ok THEN "fetched" ELSE "failed"]
    /\ li_fetched' = [li_fetched EXCEPT ![i] = fetch_item_details(li_ids[i], ok)]
    /\ li_finished' = Append(li_finished, i)
    /\ UNCHANGED <<notList, li_pc, li_ids, li_result>>

\* every coroutine has finished: gather returns and the result is built
GatherReturns ==
    /\ li_pc = "gather"
    /\ \A i \in 1..Len(li_ids) : li_tasks[i] # "running"
    /\ li_result' = [returned |-> TRUE, success |-> TRUE,
                     items |-> gather(li_fetched, li_finished)]
    /\ li_pc' = "returned"
    /\ UNCHANGED <<notList, li_ids, li_tasks, li_fetched, li_finished>>

ListNext ==
    \/ ListWithoutUser
    \/ \E item_ids \in ItemIdLists : SearchResponds(item_ids)
    \/ SearchRaises
    \/ \E i \in ItemIds, ok \in BOOLEAN : FetchCompletes(i, ok)
    \/ GatherReturns

ListSpec == ListInit /\ [][ListNext]_vars

----------------------------------------------------------------------------
(* Permissions: backend/app/services/permission_service.py                  *)
(*   grant_permission, revoke_permission, get_permission, has_permission,  *)
(*   is_admin, count_admins; backend/app/models/agent_permission.py (one   *)
(*   row per agent and user).  Two requests, each with a session of its    *)
(*   own, call the service on the same agent; a call is cut at its awaits  *)
(*   (the queries, the commit).                                            *)

notPermission == <<coreVars, rateVars, credVars, expiryVars, apiVars,
                   structuredVars, builtinVars, toolRegistryVars,
                   conversationVars, entityVars, listVars>>

PermissionInit ==
    /\ CoreIdle
    /\ RateIdle
    /\ CredIdle
    /\ ExpiryIdle
    /\ ApiIdle
    /\ StructuredIdle
    /\ BuiltinIdle
    /\ ToolRegistryIdle
    /\ ConversationIdle
    /\ EntityIdle
    /\ ListIdle
    /\ pm_rows \in {rows \in [Users -> {NoPermission, "use", "admin"}] :
                      rows["u1"] = "admin"}
    /\ pm_pc = [s \in Sessions |-> "idle"]
    /\ pm_op = [s \in Sessions |-> NoPermissionOp]
    /\ pm_loaded = [s \in Sessions |-> NoPermission]
    /\ pm_outcome = [s \in Sessions |-> "none"]
    /\ pm_calls = [s \in Sessions |-> 0]

\* get_permission: the permission_type of the user's row
get_permission(rows, user_id) == rows[user_id]

\* has_permission
has_permission(rows, user_id, required_type) ==
    LET permission == get_permission(rows, user_id)
    IN  IF permission = NoPermission THEN FALSE
        ELSE IF required_type = "use"
        THEN permission \in {"use", "admin"}
        ELSE permission = required_type

\* variant: the use permission is enough
is_admin_useIsEnough(rows, user_id) == has_permission(rows, user_id, "use")

\* is_admin
is_admin(rows, user_id) == has_permission(rows, user_id, "admin")

\* count_admins
count_admins(rows) == Cardinality({u \in Users : rows[u] = "admin"})

PermissionCalls ==
    pm_calls["s1"] + pm_calls["s2"]

\* grant_permission up to the answer of is_admin
GrantBegin(s, user_id, granted_by, permission_type) ==
    /\ pm_pc[s] = "idle"
    /\ PermissionCalls < MaxPermissionOps
    /\ pm_calls' = [pm_calls EXCEPT ![s] = @ + 1]
    /\ pm_op' = [pm_op EXCEPT ![s] =
                    [kind |-> "grant", user_id |-> user_id, by |-> granted_by,
                     permission_type |-> permission_type]]
    /\ pm_loaded' = [pm_loaded EXCEPT ![s] = NoPermission]
    /\ IF permission_type \notin {"use", "admin"}
       THEN /\ pm_outcome' = [pm_outcome EXCEPT ![s] = "ValueError"]
            /\ UNCHANGED pm_pc
       ELSE IF ~is_admin(pm_rows, granted_by)
       THEN /\ pm_outcome' = [pm_outcome EXCEPT ![s] = "ValueError"]
            /\ UNCHANGED pm_pc
       ELSE /\ pm_outcome' = [pm_outcome EXCEPT ![s] = "none"]
            /\ pm_pc' = [pm_pc EXCEPT ![s] = "grant_lookup"]
    /\ UNCHANGED <<notPermission, pm_rows>>

\* existing = await self.get_permission(agent_id, user_id)
GrantLookup(s) ==
    /\ pm_pc[s] = "grant_lookup"
    /\ pm_loaded' = [pm_loaded EXCEPT ![s] =
                        get_permission(pm_rows, pm_op[s].user_id)]
    /\ pm_pc' = [pm_pc EXCEPT ![s] = "grant_commit"]
    /\ UNCHANGED <<notPermission, pm_rows, pm_op, pm_outcome, pm_calls>>

\* the commit of grant_permission: the UPDATE of the row that was loaded or
\* the INSERT of a new one; the row may have been deleted or inserted by
\* the other session in the meantime
GrantCommit(s) ==
    LET user_id == pm_op[s].user_id
        stored == get_permission(pm_rows, user_id)
    IN
    /\ pm_pc[s] = "grant_commit"
    /\ IF pm_loaded[s] # NoPermission
       THEN IF stored # NoPermission
            THEN /\ pm_rows' = [pm_rows EXCEPT ![user_id] =
                                   pm_op[s].permission_type]
                 /\ pm_outcome' = [pm_outcome EXCEPT ![s] = "returned"]
            ELSE /\ pm_outcome' = [pm_outcome EXCEPT ![s] = "StaleDataError"]
                 /\ UNCHANGED pm_rows
       ELSE IF stored = NoPermission
            THEN /\ pm_rows' = [pm_rows EXCEPT ![user_id] =
                                   pm_op[s].permission_type]
                 /\ pm_outcome' = [pm_outcome EXCEPT ![s] = "returned"]
            ELSE /\ pm_outcome' = [pm_outcome EXCEPT ![s] = "IntegrityError"]
                 /\ UNCHANGED pm_rows
    /\ pm_pc' = [pm_pc EXCEPT ![s] = "idle"]
    /\ UNCHANGED <<notPermission, pm_op, pm_loaded, pm_calls>>

\* revoke_permission up to the answer of is_admin
RevokeBegin(s, user_id, revoked_by) ==
    /\ pm_pc[s] = "idle"
    /\ PermissionCalls < MaxPermissionOps
    /\ pm_calls' = [pm_calls EXCEPT ![s] = @ + 1]
    /\ pm_op' = [pm_op EXCEPT ![s] =
                    [kind |-> "revoke", user_id |-> user_id, by |-> revoked_by,
                     permission_type |-> "use"]]
    /\ pm_loaded' = [pm_loaded EXCEPT ![s] = NoPermission]
    /\ IF ~is_admin(pm_rows, revoked_by)
       THEN /\ pm_outcome' = [pm_outcome EXCEPT ![s] = "ValueError"]
            /\ UNCHANGED pm_pc
       ELSE /\ pm_outcome' = [pm_outcome EXCEPT ![s] = "none"]
            /\ pm_pc' = [pm_pc EXCEPT ![s] = "revoke_lookup"]
    /\ UNCHANGED <<notPermission, pm_rows>>

\* permission = await self.get_permission(agent_id, user_id)
RevokeLookup(s) ==
    LET permission == get_permission(pm_rows, pm_op[s].user_id)
    IN
    /\ pm_pc[s] = "revoke_lookup"
    /\ pm_loaded' = [pm_loaded EXCEPT ![s] = permission]
    /\ IF permission = NoPermission
       THEN /\ pm_outcome' = [pm_outcome EXCEPT ![s] = "returned_false"]
            /\ pm_pc' = [pm_pc EXCEPT ![s] = "idle"]
       ELSE /\ pm_pc' = [pm_pc EXCEPT ![s] =
                            IF permission = "admin" THEN "revoke_count"
                            ELSE "revoke_commit"]
            /\ UNCHANGED pm_outcome
    /\ UNCHANGED <<notPermission, pm_rows, pm_op, pm_calls>>

\* admin_count = await self.count_admins(agent_id)
RevokeCount(s) ==
    /\ pm_pc[s] = "revoke_count"
    /\ IF count_admins(pm_rows) <= 1
       THEN /\ pm_outcome' = [pm_outcome EXCEPT ![s] = "ValueError"]
            /\ pm_pc' = [pm_pc EXCEPT ![s] = "idle"]
       ELSE /\ pm_pc' = [pm_pc EXCEPT ![s] = "revoke_commit"]
            /\ UNCHANGED pm_outcome
    /\ UNCHANGED <<notPermission, pm_rows, pm_op, pm_loaded, pm_calls>>

\* await self.session.delete(permission); await self.session.commit()
RevokeCommit(s) ==
    /\ pm_pc[s] = "revoke_commit"
    /\ pm_rows' = [pm_rows EXCEPT ![pm_op[s].user_id] = NoPermission]
    /\ pm_outcome' = [pm_outcome EXCEPT ![s] = "returned_true"]
    /\ pm_pc' = [pm_pc EXCEPT ![s] = "idle"]
    /\ UNCHANGED <<notPermission, pm_op, pm_loaded, pm_calls>>

PermissionNext ==
    \/ \E s \in Sessions, user_id \in Users, granted_by \in Users,
          permission_type \in PermissionTypes :
          GrantBegin(s, user_id, granted_by, permission_type)
    \/ \E s \in Sessions : GrantLookup(s)
    \/ \E s \in Sessions : GrantCommit(s)
    \/ \E s \in Sessions, user_id \in Users, revoked_by \in Users :
          RevokeBegin(s, user_id, revoked_by)
    \/ \E s \in Sessions : RevokeLookup(s)
    \/ \E s \in Sessions : RevokeCount(s)
    \/ \E s \in Sessions : RevokeCommit(s)

PermissionSpec == PermissionInit /\ [][PermissionNext]_vars

----------------------------------------------------------------------------
(* Observations on the state, used by the properties *)

Last(seq) == seq[Len(seq)]

RECURSIVE Flatten(_)
Flatten(seqs) ==
    IF Len(seqs) = 0 THEN <<>> ELSE Head(seqs) \o Flatten(Tail(seqs))

HasEvent(type) == \E i \in 1..Len(events) : events[i].type = type

CountEvents(type) == Cardinality({i \in 1..Len(events) : events[i].type = type})

IsToolResultBlock(b) == b.type = "tool_result"

IsToolUseBlock(b) == b.type = "tool_use"

\* the tool-result entries of one message of the working history
ResultsOfMessage(m) ==
    IF m.role = "tool"
    THEN <<[id |-> m.tool_call_id, content |-> m.content]>>
    ELSE IF m.role = "user" /\ m.content.t = "list"
    THEN LET blocks == SelectSeq(m.content.v, IsToolResultBlock)
         IN  [i \in 1..Len(blocks) |->
                [id |-> blocks[i].tool_use_id, content |-> blocks[i].content]]
    ELSE <<>>

\* the tool-call entries of one message of the working history
CallsOfMessage(m) ==
    IF m.role # "assistant" THEN <<>>
    ELSE IF "tool_calls" \in DOMAIN m
    THEN [i \in 1..Len(m.tool_calls) |->
            [id |-> m.tool_calls[i].id, name |-> m.tool_calls[i].name]]
    ELSE IF m.content.t = "list"
    THEN LET blocks == SelectSeq(m.content.v, IsToolUseBlock)
         IN  [i \in 1..Len(blocks) |->
                [id |-> blocks[i].id, name |-> blocks[i].name]]
    ELSE <<>>

\* all tool-result entries of the working history, in order
ToolResultEntries ==
    Flatten([i \in 1..Len(conversation_messages) |->
                ResultsOfMessage(conversation_messages[i])])

\* all tool-call entries of the working history, in order
ToolCallEntries ==
    Flatten([i \in 1..Len(conversation_messages) |->
                CallsOfMessage(conversation_messages[i])])

\* the tool calls executed before the turn in progress
CallsOfEarlierTurns == Len(all_tool_calls) - Len(tool_uses)

----------------------------------------------------------------------------
(* C1: while a model turn is being streamed (so from the moment it is      *)
(* requested), every tool call executed in an earlier turn has its call    *)
(* entry and its result entry in the working history, in execution order.  *)
C1_ResultsBeforeNextTurn ==
    pc = "streaming" =>
        LET results == ToolResultEntries
            calls == ToolCallEntries
        IN  /\ Len(results) = CallsOfEarlierTurns
            /\ Len(calls) = CallsOfEarlierTurns
            /\ \A i \in 1..CallsOfEarlierTurns :
                  /\ calls[i].name = all_tool_calls[i].tool_name
                  /\ results[i].content.text =
                        ResultStr(all_tool_calls[i].output)

\* a second turn is being streamed after a turn of two tool calls
C1_Witness ==
    /\ pc = "streaming"
    /\ turns_requested = 2
    /\ CallsOfEarlierTurns = 2
    /\ Len(ToolResultEntries) = 2

----------------------------------------------------------------------------
(* C2: after a tool-calling turn that continues the loop, the history has  *)
(* gained one result entry per tool call of the turn, each result carries  *)
(* the id of exactly one call of the turn, and no two calls of the turn    *)
(* share an id.                                                            *)
ResultsOfTurn ==
    LET results == ToolResultEntries
    IN  SubSeq(results, Len(results) - Len(tool_uses) + 1, Len(results))

C2_ResultsMatchCallsById ==
    (pc = "loop" /\ Len(tool_uses) > 0) =>
        LET results == ResultsOfTurn
        IN  /\ Len(ToolResultEntries) = Len(all_tool_calls)
            /\ \A i \in 1..Len(tool_uses) :
                  Cardinality({j \in 1..Len(tool_uses) :
                                  tool_uses[j].id = results[i].id}) = 1
            /\ \A i, j \in 1..Len(tool_uses) :
                  i # j => tool_uses[i].id # tool_uses[j].id

----------------------------------------------------------------------------
(* C3: the number of tool calls executed in one execution never exceeds    *)
(* the iteration cap.                                                      *)
C3_ToolCallsWithinCap == Len(all_tool_calls) <= max_iterations

----------------------------------------------------------------------------
(* C4: no tool's consecutive-failure counter ever exceeds the failure      *)
(* threshold.                                                              *)
C4_FailuresWithinThreshold ==
    \A name \in ToolNames :
        DictGet(tool_failure_counts, name, 0) <= max_tool_failures

----------------------------------------------------------------------------
(* C5: the execution requests at most max_iterations model turns, and an   *)
(* execution whose every turn requested a tool and whose provider raised   *)
(* nothing ends with the final agent message persisted last and            *)
(* message_complete as the last event.                                     *)
EveryTurnRequestedTool == turns_requested >= 1 /\ Len(tool_uses) > 0

C5_TerminatesWithinCap ==
    /\ turns_requested <= max_iterations
    /\ iteration = turns_requested
    /\ (pc = "done" /\ EveryTurnRequestedTool /\ ~HasEvent("error")) =>
          /\ Len(db_messages) > 0
          /\ Last(db_messages).role = "agent"
          /\ Last(db_messages).content = final_response_content
          /\ Last(events).type = "message_complete"

\* the execution ended on the tool-call limit after 14 turns of one call
C5_Witness ==
    /\ pc = "done"
    /\ EveryTurnRequestedTool
    /\ turns_requested = 14
    /\ final_response_content = LimitMessage
    /\ Last(events).type = "message_complete"

----------------------------------------------------------------------------
(* C6: once the turn is over, if some tool has failed max_tool_failures    *)
(* times in a row (no success of that tool in between), the loop has       *)
(* stopped with the final message that names that tool.                    *)
CallsOf(name) ==
    LET Test(call) == call.tool_name = name
    IN  SelectSeq(all_tool_calls, Test)

FailedInARow(name) ==
    \E first \in 1..Len(CallsOf(name)) :
        /\ first + max_tool_failures - 1 <= Len(CallsOf(name))
        /\ \A i \in first..(first + max_tool_failures - 1) :
              ~CallsOf(name)[i].output.success

C6_AbortNamesFailingTool ==
    \A name \in ToolNames :
        (pc \in {"loop", "save_response"} /\ FailedInARow(name)) =>
            /\ pc = "save_response"
            /\ final_response_content = FailureMessage(name)

----------------------------------------------------------------------------
(* C7: when the loop has ended by a final answer or a graceful abort, the  *)
(* next step persists the one agent message of the execution, carrying     *)
(* every executed tool call in execution order, and emits message_complete *)
(* as the last event; the stream holds no error event.                     *)
IsToolUseComplete(e) == e.type = "tool_use_complete"

\* the executed tool calls, as the tool_use_complete events report them
ExecutedCalls(evts) ==
    LET done == SelectSeq(evts, IsToolUseComplete)
    IN  [i \in 1..Len(done) |->
            [tool_name |-> done[i].data[1], output |-> done[i].data[2]]]

AgentMessages(messages) ==
    LET IsAgent(m) == m.role = "agent"
    IN  SelectSeq(messages, IsAgent)

C7_AuditTrailPersisted ==
    [][pc = "save_response" =>
        /\ pc' = "done"
        /\ Len(AgentMessages(db_messages)) = 0
        /\ Len(AgentMessages(db_messages')) = 1
        /\ Last(db_messages').role = "agent"
        /\ Last(db_messages').content = final_response_content
        /\ Last(db_messages').tool_calls = ExecutedCalls(events')
        /\ Last(events').type = "message_complete"
        /\ \A i \in 1..Len(events') : events'[i].type # "error"]_vars

\* an execution that ran tools in two turns has persisted its agent message
C7_Witness ==
    /\ pc = "done"
    /\ turns_requested >= 2
    /\ Len(AgentMessages(db_messages)) = 1
    /\ Len(Last(db_messages).tool_calls) >= 3
    /\ Last(events).type = "message_complete"

----------------------------------------------------------------------------
(* C8: an execution whose first turn is text only yields agent_loaded,     *)
(* conversation_started, the content_delta events of the turn and one      *)
(* message_complete, and saves two messages: the user message, then one    *)
(* agent message whose content is the concatenation of the deltas.         *)
IsContentDelta(e) == e.type = "content_delta"

DeltaText(evts) ==
    LET deltas == SelectSeq(evts, IsContentDelta)
    IN  Flatten([i \in 1..Len(deltas) |-> deltas[i].data])

TextOnlyFirstTurn ==
    /\ pc = "done"
    /\ turns_requested = 1
    /\ Len(all_tool_calls) = 0
    /\ ~HasEvent("error")

C8_TextOnlyScenario ==
    TextOnlyFirstTurn =>
        /\ Len(events) >= 3
        /\ events[1].type = "agent_loaded"
        /\ events[2].type = "conversation_started"
        /\ \A i \in 3..(Len(events) - 1) : events[i].type = "content_delta"
        /\ Last(events).type = "message_complete"
        /\ CountEvents("message_complete") = 1
        /\ Len(db_messages) = 2
        /\ db_messages[1].role = "user"
        /\ db_messages[1].content = user_message
        /\ db_messages[2].role = "agent"
        /\ db_messages[2].content = DeltaText(events)
        /\ db_messages[2].tool_calls = <<>>

\* the text-only turn streamed two chunks
C8_Witness ==
    /\ TextOnlyFirstTurn
    /\ CountEvents("content_delta") = 2
    /\ db_messages[2].content = Delta(1) \o Delta(2)

----------------------------------------------------------------------------
(* C9: in an execution that ran tools and ended without error, the tool    *)
(* events are one tool_use_start directly followed by its                  *)
(* tool_use_complete per call, in the order of the calls, and the stream   *)
(* ends with message_complete.                                             *)
IsToolEvent(e) == e.type \in {"tool_use_start", "tool_use_complete"}

ToolEventsPaired ==
    LET tool_events == SelectSeq(events, IsToolEvent)
    IN  /\ Len(tool_events) = 2 * Len(all_tool_calls)
        /\ \A i \in 1..Len(all_tool_calls) :
              /\ tool_events[2 * i - 1].type = "tool_use_start"
              /\ tool_events[2 * i - 1].data[1] = all_tool_calls[i].tool_name
              /\ tool_events[2 * i].type = "tool_use_complete"
              /\ tool_events[2 * i].data[1] = all_tool_calls[i].tool_name
              /\ tool_events[2 * i].data[2] = all_tool_calls[i].output
        /\ \A i \in 1..(Len(events) - 1) :
              events[i].type = "tool_use_start" =>
                  events[i + 1].type = "tool_use_complete"

RanToolsAndEnded ==
    /\ pc = "done"
    /\ Len(all_tool_calls) > 0
    /\ ~HasEvent("error")

\* the statement as written: exactly one message_complete in the stream
C9_SingleMessageComplete ==
    RanToolsAndEnded =>
        /\ ToolEventsPaired
        /\ Last(events).type = "message_complete"
        /\ CountEvents("message_complete") = 1

\* the tool-calling turns in which the model also produced text
HasText(m) ==
    IF "tool_calls" \in DOMAIN m THEN m.content.t = "str"
    ELSE \E i \in 1..Len(m.content.v) : m.content.v[i].type = "text"

TextToolTurns ==
    Cardinality({i \in 1..Len(conversation_messages) :
                    /\ Len(CallsOfMessage(conversation_messages[i])) > 0
                    /\ HasText(conversation_messages[i])})
    + (IF Len(tool_uses) > 0 /\ assistant_content # <<>> THEN 1 ELSE 0)

\* amended: one more message_complete per tool-calling turn that had text
C9_ToolEventsThenComplete ==
    RanToolsAndEnded =>
        /\ ToolEventsPaired
        /\ Last(events).type = "message_complete"
        /\ CountEvents("message_complete") = 1 + TextToolTurns

\* two calls of "search" in two turns, the first turn with text, then the
\* answer
C9_Witness ==
    /\ RanToolsAndEnded
    /\ Len(tool_uses) = 0
    /\ turns_requested = 3
    /\ Len(all_tool_calls) = 2
    /\ \A i \in 1..2 : all_tool_calls[i].tool_name = "search"
    /\ TextToolTurns = 1
    /\ CountEvents("message_complete") = 2

----------------------------------------------------------------------------
(* C10: when the agent does not exist or no API key is available, the      *)
(* execution ends with an error event, and no conversation was created,    *)
(* no message persisted and no model turn requested.                       *)
C10_FailFast ==
    (pc = "done" /\ (~agent_exists \/ ~key_available)) =>
        /\ Last(events).type = "error"
        /\ conversations = 0
        /\ db_messages = <<>>
        /\ turns_requested = 0

----------------------------------------------------------------------------
(* C11: a tool call whose name is not registered, or whose execute raises, *)
(* does not end the execution: the step that executes it leaves the        *)
(* generator reading the stream, yields tool_use_complete with a           *)
(* {success: false, error} result, adds one to the failure count of that   *)
(* tool and yields no error event; and once the next turn is requested the *)
(* error text of every such call is the text of its result entry in the    *)
(* working history.                                                        *)
IsTrappedFailure(call) ==
    /\ call.output.error # <<>>
    /\ call.output.error[1] \in {"Tool ", "exception of "}

C11_ToolErrorsAreResults ==
    /\ [][Len(all_tool_calls') = Len(all_tool_calls) + 1 =>
            LET call == all_tool_calls'[Len(all_tool_calls')]
                name == call.tool_name
                trapped == \/ Registry_get(registry_tools, name) = NoTool
                           \/ IsTrappedFailure(call)
            IN  trapped =>
                  /\ pc' = "streaming"
                  /\ call.output.success = FALSE
                  /\ call.output.error # <<>>
                  /\ events'[Len(events')] =
                        ExecutionEvent("tool_use_complete",
                                       <<name, call.output>>)
                  /\ DictGet(tool_failure_counts', name, 0) =
                        DictGet(tool_failure_counts, name, 0) + 1
                  /\ \A i \in (Len(events) + 1)..Len(events') :
                        events'[i].type # "error"]_vars
    /\ []((/\ pc = "streaming"
            /\ \E i \in 1..CallsOfEarlierTurns :
                  IsTrappedFailure(all_tool_calls[i])) =>
            LET results == ToolResultEntries
            IN  \A i \in 1..CallsOfEarlierTurns :
                  IsTrappedFailure(all_tool_calls[i]) =>
                    results[i].content.text = all_tool_calls[i].output.error)

\* the second turn is being streamed after a turn that called a tool that
\* is not registered
C11_Witness ==
    /\ pc = "streaming"
    /\ turns_requested = 2
    /\ CallsOfEarlierTurns = 1
    /\ all_tool_calls[1].tool_name = "publish"
    /\ IsTrappedFailure(all_tool_calls[1])
    /\ all_tool_calls[1].output.error[1] = "Tool "
    /\ ~HasEvent("error")

\* the same after a registered tool raised
C11_WitnessRaised ==
    /\ pc = "streaming"
    /\ turns_requested = 2
    /\ CallsOfEarlierTurns = 1
    /\ IsTrappedFailure(all_tool_calls[1])
    /\ all_tool_calls[1].output.error[1] = "exception of "

----------------------------------------------------------------------------
(* C12: the generator never ends by raising; the stream holds at most one  *)
(* error event, and once it holds one the execution has ended and the      *)
(* error event is the last event; an execution that has ended has ended    *)
(* with an error event or with message_complete.                           *)
C12_OneFinalErrorEvent ==
    /\ pc # "raised"
    /\ CountEvents("error") <= 1
    /\ HasEvent("error") => (pc = "done" /\ Last(events).type = "error")
    /\ pc = "done" => Last(events).type \in {"error", "message_complete"}

\* the same for the failures the handler is able to report
C12_ReportedFailures ==
    /\ CountEvents("error") <= 1
    /\ HasEvent("error") => (pc = "done" /\ Last(events).type = "error")
    /\ pc = "done" => Last(events).type \in {"error", "message_complete"}

----------------------------------------------------------------------------
(* C13: whatever a run gets from a registry lookup is a tool that this    *)
(* same run registered (or nothing): a lookup never returns a tool that    *)
(* another run registered.                                                 *)
C13_RegistryScopedToRun ==
    \A r \in Runs : \A i \in 1..Len(run_lookups[r]) :
        run_lookups[r][i].tool \in {NoTool, r}

----------------------------------------------------------------------------
(* Observations on the platform calls *)

HasStatus(response, low, high) ==
    /\ response.kind = "status"
    /\ low <= response.status
    /\ response.status <= high

Is401(response) == HasStatus(response, 401, 401)

Is429(response) == HasStatus(response, 429, 429)

Is5xx(response) == HasStatus(response, 500, 599)

Is2xx(response) == HasStatus(response, 200, 299)

IsNoResponse(response) == response.kind = "network"

\* a status of the 4xx range other than 401 and 429
IsOther(response) ==
    /\ HasStatus(response, 400, 499)
    /\ ~Is401(response)
    /\ ~Is429(response)

Has401(q) == \E i \in 1..Len(responses[q]) : Is401(responses[q][i])

\* the position of the 401 that a call handled (its first one)
First401(q) ==
    CHOOSE i \in 1..Len(responses[q]) :
        /\ Is401(responses[q][i])
        /\ \A j \in 1..(i - 1) : ~Is401(responses[q][j])

\* the call has sent the original request again after its 401
RetrySent(q) == Has401(q) /\ Len(requests_sent[q]) > First401(q)

RetryToken(q) == requests_sent[q][First401(q) + 1]

\* the call is inside oauth_service.refresh_token
Refreshing(q) ==
    rq_pc[q] \in {"refresh_first", "refresh_winner", "refresh_loser",
                  "store_first", "store_winner", "store_loser"}

----------------------------------------------------------------------------
(* C14: when one call won the refresh lock on its 401 and the other call   *)
(* lost it on its own 401, and both have sent their request again, then    *)
(* the winner refreshed once, the loser did not refresh, and both requests *)
(* were sent again with the token that the winner's refresh obtained.      *)
C14_OneRefreshForConcurrent401 ==
    \A p \in Requests : \A q \in Requests \ {p} :
        ( /\ lock_acquired[p] = "won"
          /\ lock_acquired[q] = "lost"
          /\ RetrySent(p)
          /\ RetrySent(q) ) =>
            /\ Len(SelectSeq(refresh_calls[p],
                              LAMBDA c : c = "refresh_winner")) = 1
            /\ \A i \in 1..Len(refresh_calls[q]) :
                    refresh_calls[q][i] = "refresh_first"
            /\ RetryToken(p) = new_token[p]
            /\ RetryToken(q) = new_token[p]
            /\ RetryToken(p) # requests_sent[p][First401(p)]

----------------------------------------------------------------------------
(* C15: a call is inside refresh_token only while it holds the refresh     *)
(* lock of the integration, and no two calls are inside refresh_token at   *)
(* the same time.                                                          *)
C15_RefreshOnlyUnderLock ==
    /\ \A q \in Requests : Refreshing(q) => refresh_lock = q
    /\ \A p \in Requests : \A q \in Requests \ {p} :
            ~(Refreshing(p) /\ Refreshing(q))

\* the second half alone: never two refreshes at the same time
C15_NoTwoRefreshes ==
    \A p \in Requests : \A q \in Requests \ {p} :
        ~(Refreshing(p) /\ Refreshing(q))

----------------------------------------------------------------------------
(* C16: a call that received 401 sends the original request once more and  *)
(* never again: the request it sends after the 401 carries the token the   *)
(* 401 branch obtained (for the lock winner a token newly issued by its    *)
(* refresh), the call makes at most one refresh after the 401, the answer  *)
(* to the retried request ends the call (returned on success, the httpx    *)
(* exception otherwise, another 401 included), a call that ended without   *)
(* failing to obtain a token has retried, and a call that has ended sends  *)
(* and refreshes nothing more.                                             *)
RefreshesAfter401(q) ==
    Len(SelectSeq(refresh_calls[q], LAMBDA c : c # "refresh_first"))

----------------------------------------------------------------------------
(* C17: while every response a call has received is a 429, the call has    *)
(* slept once after each of the first max_retries - 1 of them, for the     *)
(* seconds of that response's Retry-After header (60 when it has none);    *)
(* it has sent at most max_retries requests; after the last one it has     *)
(* ended with the rate-limit error, and before that it has not ended.      *)
AllResponses(q, Is(_)) ==
    /\ Len(responses[q]) > 0
    /\ \A i \in 1..Len(responses[q]) : Is(responses[q][i])

SecondsOf(header) == IF header = Header(<<"5">>) THEN 5 ELSE 60

Min(a, b) == IF a <= b THEN a ELSE b

----------------------------------------------------------------------------
(* C18: while every response a call has received is a 5xx, the call has    *)
(* slept 1 s after the first and 2 s after the second, has sent at most    *)
(* max_retries requests, and after the last one has ended with the server  *)
(* error; a call whose responses are 5xx followed by a success has         *)
(* returned after that request, having slept 1 s, then 2 s, after the 5xx. *)
Doubling(n) == [i \in 1..n |-> IF i = 1 THEN 1 ELSE 2]

ServerThenSuccess(q) ==
    /\ Len(responses[q]) > 0
    /\ Is2xx(responses[q][Len(responses[q])])
    /\ \A i \in 1..(Len(responses[q]) - 1) : Is5xx(responses[q][i])

C18_ServerErrorRetries ==
    \A q \in Requests :
        LET n == Len(responses[q])
        IN  /\ AllResponses(q, Is5xx) =>
                  /\ Len(requests_sent[q]) = n
                  /\ n <= max_retries
                  /\ slept[q] = Doubling(Min(n, max_retries - 1))
                  /\ n = max_retries =>
                        /\ rq_pc[q] = "done"
                        /\ outcome[q] = "API server error"
                  /\ n < max_retries =>
                        /\ rq_pc[q] = "send"
                        /\ outcome[q] = "none"
            /\ ServerThenSuccess(q) =>
                  /\ Len(requests_sent[q]) = n
                  /\ n <= max_retries
                  /\ slept[q] = Doubling(n - 1)
                  /\ rq_pc[q] = "done"
                  /\ outcome[q] = "returned"

\* three 5xx in a row
C18_Witness ==
    \E q \in Requests :
        /\ AllResponses(q, Is5xx)
        /\ Len(requests_sent[q]) = 3
        /\ slept[q] = <<1, 2>>
        /\ outcome[q] = "API server error"

\* two 5xx, then a success
C18_WitnessRecovered ==
    \E q \in Requests :
        /\ ServerThenSuccess(q)
        /\ Len(requests_sent[q]) = 3
        /\ slept[q] = <<1, 2>>
        /\ outcome[q] = "returned"

----------------------------------------------------------------------------
(* C19: the step in which a call receives a status of the 4xx range other  *)
(* than 401 and 429 ends the call with an error, with no sleep and no      *)
(* refresh in that step, and nothing is sent, slept or refreshed after it; *)
(* when it is the answer to the first request, the call has sent that one  *)
(* request, has not slept and has raised the API (or validation) error.    *)
C19_ClientErrorRaisesAtOnce ==
    /\ [][\A q \in Requests :
            ( /\ Len(responses'[q]) = Len(responses[q]) + 1
              /\ IsOther(responses'[q][Len(responses'[q])]) ) =>
                /\ Len(requests_sent'[q]) = Len(requests_sent[q]) + 1
                /\ slept'[q] = slept[q]
                /\ refresh_calls'[q] = refresh_calls[q]
                /\ rq_pc'[q] = "done"
                /\ outcome'[q] \in {"API error", "Validation error (HTTP 400)",
                                     "HTTPStatusError"}]_vars
    /\ [][\A q \in Requests :
            (Len(responses[q]) > 0 /\ IsOther(responses[q][Len(responses[q])]))
            => /\ rq_pc'[q] = rq_pc[q]
               /\ requests_sent'[q] = requests_sent[q]
               /\ slept'[q] = slept[q]
               /\ refresh_calls'[q] = refresh_calls[q]
               /\ outcome'[q] = outcome[q]]_vars
    /\ [](\A q \in Requests :
            (Len(responses[q]) > 0 /\ IsOther(responses[q][1])) =>
                /\ Len(requests_sent[q]) = 1
                /\ slept[q] = <<>>
                /\ \A i \in 1..Len(refresh_calls[q]) :
                        refresh_calls[q][i] = "refresh_first"
                /\ rq_pc[q] = "done"
                /\ outcome[q] = IF responses[q][1].status = 400
                                THEN "Validation error (HTTP 400)"
                                ELSE "API error")

\* a call whose first request was answered 404
C19_Witness ==
    \E q \in Requests :
        /\ Len(responses[q]) = 1
        /\ responses[q][1].status = 404
        /\ Len(requests_sent[q]) = 1
        /\ slept[q] = <<>>
        /\ rq_pc[q] = "done"
        /\ outcome[q] = "API error"

----------------------------------------------------------------------------
(* C20: while every request of a call has failed without a response, the   *)
(* call has slept 1 s after the first failure and 2 s after the second,    *)
(* has sent at most max_retries requests, and after the last one has       *)
(* ended with the network error.                                           *)
C20_NetworkErrorRetries ==
    \A q \in Requests : AllResponses(q, IsNoResponse) =>
        LET n == Len(responses[q])
        IN  /\ Len(requests_sent[q]) = n
            /\ n <= max_retries
            /\ slept[q] = Doubling(Min(n, max_retries - 1))
            /\ n = max_retries =>
                  /\ rq_pc[q] = "done"
                  /\ outcome[q] = "Network error"
            /\ n < max_retries =>
                  /\ rq_pc[q] = "send"
                  /\ outcome[q] = "none"

\* three network errors in a row
C20_Witness ==
    \E q \in Requests :
        /\ AllResponses(q, IsNoResponse)
        /\ Len(requests_sent[q]) = 3
        /\ slept[q] = <<1, 2>>
        /\ outcome[q] = "Network error"

----------------------------------------------------------------------------
(* C21: a call whose check has read a counter at the limit (1500) sends no  *)
(* HTTP request as long as the window in which it read that value has not   *)
(* expired.                                                                 *)
C21_QuotaEnforced ==
    [][\A q \in Requests :
          rl_requests'[q] > rl_requests[q] =>
              ~(rl_current[q] >= 1500 /\ rl_seen[q] = rl_window)]_vars

----------------------------------------------------------------------------
(* C22: once a store has committed, the integration has exactly one         *)
(* oauth_access_token row, that row holds the tokens of the store that     *)
(* committed last, and get_credentials returns it.                          *)
C22_OneRowLatestTokens ==
    cred_latest # 0 =>
        /\ Len(cred_rows) = 1
        /\ cred_rows[1] = [access |-> cred_latest, refresh |-> cred_latest]
        /\ scalar_one_or_none(cred_rows).kind = "row"
        /\ scalar_one_or_none(cred_rows).access = cred_latest

----------------------------------------------------------------------------
(* C23: the expiry test of _get_access_token answers true exactly when the  *)
(* credential has no expiry or the time is at or after the expiry minus 60  *)
(* seconds; a token that expires more than 60 seconds from now is returned  *)
(* as stored, without a refresh.                                            *)
C23_ExpiredExactlyInsideBuffer ==
    tk_check.done =>
        /\ tk_check.expired <=>
               \/ ~tk_check.expiry.present
               \/ tk_check.now + 60 >= tk_check.expiry.at
        /\ (tk_check.expiry.present /\ tk_check.expiry.at > tk_check.now + 60)
               => (~tk_check.expired /\ tk_check.returned = "stored")
        /\ tk_check.returned = "stored" => tk_expiry = tk_check.expiry

\* a token is tested at the second its buffer begins and refreshed, after
\* it had been returned as stored one second before
C23_Witness ==
    /\ tk_check.done
    /\ tk_check.expiry.present
    /\ tk_check.expiry.at = tk_check.now + 60
    /\ tk_check.now > 0
    /\ tk_check.expired
    /\ tk_check.returned = "refreshed"

\* a token that expires 61 seconds from now is returned as stored
C23_WitnessFresh ==
    /\ tk_check.done
    /\ tk_check.expiry.present
    /\ tk_check.expiry.at = tk_check.now + 61
    /\ tk_check.returned = "stored"

----------------------------------------------------------------------------
\* the required fields that input_data lacks or holds as an empty string
MissingOrEmpty ==
    SelectSeq(api_config.required,
              LAMBDA field : \/ \A i \in 1..Len(api_input) : api_input[i].k # field
                             \/ \E i \in 1..Len(api_input) :
                                   /\ api_input[i].k = field
                                   /\ api_input[i].v = [t |-> "str", v |-> <<>>])

\* the names an error message lists
NamedIn(error) == {error[i] : i \in 2..Len(error)}

(* C24: when a required field is missing or empty, execute sends no HTTP    *)
(* request and makes no refresh, and it returns success false with an      *)
(* error that names every such field and only required fields.             *)
C24_ValidationBeforeRequest ==
    Len(MissingOrEmpty) > 0 =>
        /\ api_pc \in {"start", "done"}
        /\ api_requests = <<>>
        /\ api_refreshes = <<>>
        /\ api_pc = "done" =>
              /\ api_result.returned
              /\ ~api_result.success
              /\ api_result.error[1] = "Missing required parameters"
              /\ \A i \in 1..Len(MissingOrEmpty) :
                    MissingOrEmpty[i] \in NamedIn(api_result.error)
              /\ NamedIn(api_result.error) \subseteq
                    {api_config.required[i] : i \in 1..Len(api_config.required)}

\* two fields are required, the first is given as an empty string and the
\* second has a value: execute has returned the error, naming the first
C24_Witness ==
    /\ api_config.required = <<"city", "count">>
    /\ api_input = << [k |-> "city", v |-> [t |-> "str", v |-> <<>>]],
                      [k |-> "count", v |-> [t |-> "num", v |-> <<3>>]] >>
    /\ api_pc = "done"
    /\ api_result.error = <<"Missing required parameters", "city">>
    /\ api_requests = <<>>

----------------------------------------------------------------------------
(* C25: in the oauth mode a call makes at most one refresh and sends at     *)
(* most two requests; a second request follows a successful refresh and    *)
(* carries the refreshed token; after a failed refresh the call has ended  *)
(* with success false and only the first request was sent.                 *)
C25_OneRefreshOneResend ==
    api_config.authentication = "oauth" =>
        /\ Len(api_refreshes) <= 1
        /\ Len(api_requests) <= 2
        /\ Len(api_requests) = 2 =>
              /\ api_refreshes = <<"ok">>
              /\ api_requests[2] = api_config.access_token
              /\ api_requests[2] # api_requests[1]
        /\ (Len(api_refreshes) = 1 /\ api_refreshes[1] # "ok") =>
              /\ api_pc = "done"
              /\ ~api_result.success
              /\ Len(api_requests) = 1

----------------------------------------------------------------------------
\* the value expected under one key of the extract output
ValueAtPath(response, path) ==
    IF ~path.valid THEN None
    ELSE LET found == jsonpath_find(path.steps, <<response>>)
         IN  IF found.raised \/ Len(found.matches) = 0 THEN None
             ELSE IF Len(found.matches) = 1 THEN found.matches[1]
             ELSE [t |-> "list", v |-> found.matches]

(* C26: in extract mode a response that was received and parsed always     *)
(* gives success, and the output has exactly the keys of the mapping, in   *)
(* its order; each key holds the value at its path (the list of the values *)
(* when the path matches several), or null when the path matches nothing   *)
(* or is invalid.  {a:{b:5}} gives {x: 5} for x: a.b and {y: null} for     *)
(* y: a.c.                                                                  *)
C26_ExtractHasExactlyMappingKeys ==
    (api_config.output_mode = "extract" /\ api_response # NoResponse) =>
        LET mapping == api_config.output_mapping
            output == api_result.data
        IN  /\ api_result.returned
            /\ api_result.success
            /\ output.t = "dict"
            /\ Len(output.v) = Len(mapping)
            /\ \A i \in 1..Len(mapping) :
                  /\ output.v[i].k = mapping[i].k
                  /\ output.v[i].v = ValueAtPath(api_response, mapping[i].v)
            /\ (api_response = Bodies[1] /\ mapping = Mappings[2]) =>
                  output.v = <<[k |-> "x", v |-> [t |-> "num", v |-> <<5>>]]>>
            /\ (api_response = Bodies[1] /\ mapping = Mappings[3]) =>
                  output.v = <<[k |-> "y", v |-> [t |-> "none", v |-> <<>>]]>>

\* the response {a:{b:5}} has been extracted with {x: a.b, y: a.c}: the
\* output is {x: 5, y: null}
C26_Witness ==
    /\ api_config.output_mode = "extract"
    /\ api_config.output_mapping = Mappings[4]
    /\ api_response = Bodies[1]
    /\ api_result.success
    /\ api_result.data.v = << [k |-> "x", v |-> [t |-> "num", v |-> <<5>>]],
                              [k |-> "y", v |-> [t |-> "none", v |-> <<>>]] >>

\* a path with several matches and an invalid path have been extracted
C26_WitnessSeveral ==
    /\ api_config.output_mode = "extract"
    /\ api_response = Bodies[3]
    /\ api_result.success
    /\ \E i \in 1..Len(api_result.data.v) :
          /\ api_result.data.v[i].k = "ids"
          /\ api_result.data.v[i].v =
                [t |-> "list", v |-> << [t |-> "num", v |-> <<1>>],
                                        [t |-> "num", v |-> <<2>>] >>]
    /\ \E i \in 1..Len(api_result.data.v) :
          /\ api_result.data.v[i].k = "second"
          /\ api_result.data.v[i].v = [t |-> "num", v |-> <<2>>]

----------------------------------------------------------------------------
\* the provider calls of the g-th call of generate_structured_output
ProviderCallsOf(g) == SelectSeq(so_calls, LAMBDA c : c.generation = g)

(* C27: for every adapter, a finished call of generate_structured_output    *)
(* has made a schema-constrained provider call first; it has made a second *)
(* provider call exactly when the first failed, that second call is the    *)
(* unconstrained one with the schema in the prompt, and there is no third; *)
(* the method raises exactly when its last provider call failed.           *)
C27_StrictThenOneFallback ==
    \A g \in 1..Len(so_results) :
        LET calls == ProviderCallsOf(g) IN
        /\ Len(calls) \in {1, 2}
        /\ calls[1].mode = "strict"
        /\ Len(calls) = 2 <=> calls[1].failed
        /\ Len(calls) = 2 => calls[2].mode = "prompt"
        /\ so_results[g] = "raised" <=> calls[Len(calls)].failed

----------------------------------------------------------------------------
(* C28: every builtin function runs in the session that execute has just   *)
(* created, and no step of execute changes the caller's session (its       *)
(* pending conversation and user message stay pending, its transaction     *)
(* stays usable); when the function fails, execute returns success false   *)
(* with an error.                                                           *)
C28_CallerSessionUntouched ==
    /\ [](/\ \A i \in 1..Len(bt_log) : bt_log[i].session = "new"
          /\ (bt_pc = "start" /\ Len(bt_log) > 0
                  /\ bt_log[Len(bt_log)].outcome # "ok"
                  /\ bt_function # "unknown") =>
                 /\ bt_result.returned
                 /\ ~bt_result.success
                 /\ Len(bt_result.error) > 0)
    /\ [][bt_sessions'["caller"] = bt_sessions["caller"]]_vars

\* a function has failed at its flush while the caller's session holds the
\* conversation and the user message, which are still pending
C28_Witness ==
    /\ Len(bt_log) > 0
    /\ bt_log[Len(bt_log)].outcome = "flush_fails"
    /\ bt_pc = "start"
    /\ ~bt_result.success
    /\ bt_sessions["caller"] =
          [open |-> TRUE, pending |-> {"conversation", "user_message"},
           failed |-> FALSE]
    /\ ~bt_sessions["new"].open

----------------------------------------------------------------------------
\* the tool a name maps to after the calls of a log: the tool of the last
\* register of that name, unless an unregister of it or a clear came after
RECURSIVE ExpectedTool(_, _)
ExpectedTool(log, tool_name) ==
    IF Len(log) = 0 THEN "none"
    ELSE LET e == log[Len(log)]
             before == SubSeq(log, 1, Len(log) - 1)
         IN  IF e.op = "register" /\ e.name = tool_name THEN e.tool
             ELSE IF e.op = "clear" THEN "none"
             ELSE IF e.op = "unregister" /\ e.name = tool_name THEN "none"
             ELSE ExpectedTool(before, tool_name)

C29_WitnessUnregistered ==
    /\ Len(tr_log) = 3
    /\ tr_log[1].op = "register" /\ tr_log[1].name = "search"
    /\ tr_log[2].op = "unregister" /\ tr_log[2].name = "search"
    /\ tr_log[3].op = "get" /\ tr_log[3].name = "search"
    /\ tr_log[3].tool = "none"

----------------------------------------------------------------------------
(* C30: every construction has returned the one instance of the class, so  *)
(* all references are the same object and a lookup through any of them     *)
(* gives the same tool.                                                     *)
C30_Singleton ==
    /\ Len(tr_objects) <= 1
    /\ \A c \in Clients : tr_refs[c] # 0 => tr_refs[c] = tr_instance
    /\ \A c1, c2 \in Clients :
          (tr_refs[c1] # 0 /\ tr_refs[c2] # 0) =>
              /\ tr_refs[c1] = tr_refs[c2]
              /\ \A n \in {"search", "publish"} :
                    ToolRegistry_get(tr_objects[tr_refs[c1]], n) =
                    ToolRegistry_get(tr_objects[tr_refs[c2]], n)
    /\ \A i \in 1..Len(tr_log) :
          tr_log[i].op = "get" =>
              tr_log[i].tool =
                  ExpectedTool(SubSeq(tr_log, 1, i - 1), tr_log[i].name)

\* a tool registered through one reference was looked up through the other
C30_Witness ==
    /\ tr_refs["c1"] # 0
    /\ tr_refs["c2"] # 0
    /\ \E i, j \in 1..Len(tr_log) :
          /\ i < j
          /\ tr_log[i].op = "register" /\ tr_log[i].client = "c1"
          /\ tr_log[j].op = "get" /\ tr_log[j].client = "c2"
          /\ tr_log[j].name = tr_log[i].name
          /\ tr_log[j].tool = tr_log[i].tool

----------------------------------------------------------------------------
(* C31: the final message of the tool-call limit is set only when the      *)
(* number of tool calls executed in the execution has reached the cap: an  *)
(* execution that has executed fewer than 15 tool calls never ends with    *)
(* that message.                                                           *)
C31_LimitAbortOnlyAtCap ==
    final_response_content = LimitMessage =>
        Len(all_tool_calls) >= total_tool_calls_limit

----------------------------------------------------------------------------
(* C32: the message list sent to the provider in the first model turn has  *)
(* the user message just submitted as its last entry, whatever the number  *)
(* of messages the conversation already holds.                             *)
C32_NewMessageIsLast ==
    ex_pc = "turn" =>
        /\ Len(ex_sent) > 0
        /\ ex_sent[Len(ex_sent)] = [role |-> "user", content |-> Str(ex_content)]

----------------------------------------------------------------------------
(* C37: the conversation an execution uses belongs to the agent that is    *)
(* executed: get_or_create_conversation never returns a conversation of    *)
(* another agent.                                                          *)
C37_ConversationOfTheAgent ==
    ex_pc # "idle" => cv_conversations[ex_conversation].agent_id = ex_agent

----------------------------------------------------------------------------
(* C33: after a successful tool call whose result surfaces a non-empty     *)
(* id-shaped field, at the top of the result or in its "data" or "result"  *)
(* payload, that identifier is in the created-entities map and in the      *)
(* annotation of every tool-result entry appended afterwards.              *)
IdKeys ==
    {"id", "chart_id", "item_id", "integration_id", "user_id", "product_id",
     "publication_id", "order_id", "category_id", "grid_id", "size_grid_id"}

NonEmpty(value) ==
    /\ value.t # "none"
    /\ value.t = "num" \/ Len(value.v) > 0

PayloadsOf(r) ==
    {r.v} \cup {r.v[i].v.v : i \in {j \in 1..Len(r.v) :
                                      /\ r.v[j].k \in {"data", "result"}
                                      /\ r.v[j].v.t = "dict"}}

SurfacedIds(r) ==
    {item \in UNION {{p[i] : i \in 1..Len(p)} : p \in PayloadsOf(r)} :
        item.k \in IdKeys /\ NonEmpty(item.v)}

Succeeded(r) ==
    \E i \in 1..Len(r.v) : r.v[i].k = "success" /\ r.v[i].v = Bool(TRUE)

C33_SurfacedIdsAreTracked ==
    \A i \in 1..Len(ent_calls) :
        Succeeded(ent_calls[i]) =>
            \A item \in SurfacedIds(ent_calls[i]) :
                /\ \E j \in 1..Len(ent_created) : ent_created[j].k = item.k
                /\ \A e \in 1..Len(ent_entries) :
                      ent_entries[e].calls >= i =>
                          \E j \in 1..Len(ent_entries[e].entities_info) :
                              ent_entries[e].entities_info[j][1] = item.k

----------------------------------------------------------------------------
(* C34: the list action returns its combined result only after every       *)
(* detail fetch has finished; the result has one entry per listed item id, *)
(* in the order of the id list, and a failed fetch gives an error entry    *)
(* for its id while the other entries and the call itself succeed.         *)
C34_JoinedInListOrder ==
    (li_pc = "returned" /\ Len(li_tasks) = Len(li_ids) /\ li_result.success) =>
        /\ \A i \in 1..Len(li_ids) : li_tasks[i] \in {"fetched", "failed"}
        /\ Len(li_finished) = Len(li_ids)
        /\ Len(li_result.items) = Len(li_ids)
        /\ \A i \in 1..Len(li_ids) :
              /\ li_result.items[i].id = li_ids[i]
              /\ (li_result.items[i].error # <<>>) = (li_tasks[i] = "failed")

\* three fetches finished out of order, the middle one failed, and the
\* result was returned
C34_Witness ==
    /\ li_pc = "returned"
    /\ li_result.success
    /\ Len(li_ids) = 3
    /\ li_finished = <<3, 1, 2>>
    /\ li_tasks = <<"fetched", "failed", "fetched">>
    /\ Len(li_result.items) = 3
    /\ li_result.items[2].error # <<>>

----------------------------------------------------------------------------
(* C35: a grant or a revoke called by a user who is not an admin of the    *)
(* agent raises ValueError; a revoke whose target is loaded as an admin    *)
(* counts the admins and raises ValueError when the target is the only     *)
(* one; a call that raises ValueError leaves the permissions unchanged.    *)
HoldsAdminRow(u) == pm_rows[u] = "admin"

C35_RefusedCallsChangeNothing ==
    [][\A s \in Sessions :
        /\ (pm_calls'[s] # pm_calls[s] /\ ~HoldsAdminRow(pm_op'[s].by)) =>
              /\ pm_outcome'[s] = "ValueError"
              /\ pm_pc'[s] = "idle"
              /\ pm_rows' = pm_rows
        /\ (pm_pc[s] = "revoke_lookup" /\ pm_pc'[s] # pm_pc[s]
              /\ HoldsAdminRow(pm_op[s].user_id)) =>
              pm_pc'[s] = "revoke_count"
        /\ (pm_pc[s] = "revoke_count" /\ pm_pc'[s] # pm_pc[s]
              /\ \A u \in Users : HoldsAdminRow(u) => u = pm_op[s].user_id) =>
              /\ pm_outcome'[s] = "ValueError"
              /\ pm_pc'[s] = "idle"
              /\ pm_rows' = pm_rows
        /\ (pm_outcome'[s] = "ValueError"
              /\ (pm_calls'[s] # pm_calls[s] \/ pm_pc'[s] # pm_pc[s])) =>
              pm_rows' = pm_rows
      ]_vars

\* a user with the use permission called grant_permission and was refused
C35_Witness ==
    \E s \in Sessions :
        /\ pm_op[s].kind = "grant"
        /\ pm_op[s].permission_type = "admin"
        /\ pm_rows[pm_op[s].by] = "use"
        /\ pm_outcome[s] = "ValueError"

\* the only admin called revoke_permission on its own row and was refused
C35_WitnessLastAdmin ==
    \E s \in Sessions :
        /\ pm_op[s].kind = "revoke"
        /\ pm_op[s].user_id = pm_op[s].by
        /\ pm_loaded[s] = "admin"
        /\ pm_outcome[s] = "ValueError"
        /\ pm_rows[pm_op[s].user_id] = "admin"

----------------------------------------------------------------------------
(* C36: the agent keeps at least one admin, whatever grants and revokes    *)
(* are made and however they interleave.                                   *)
C36_AlwaysAnAdmin ==
    \E u \in Users : pm_rows[u] = "admin"

----------------------------------------------------------------------------
(* C38: when the auth mode of the tool is not oauth and the endpoint       *)
(* answers 401, the call ends with success false after that one request:   *)
(* no second request is sent.                                              *)
C38_NoResendWithoutOAuth ==
    (/\ api_config.authentication # "oauth"
     /\ Len(api_statuses) >= 1
     /\ api_statuses[1] = 401) =>
        /\ api_pc = "done"
        /\ Len(api_requests) = 1
        /\ api_result.returned
        /\ ~api_result.success

----------------------------------------------------------------------------
(* C39: whenever the request counter key of the integration exists it has  *)
(* an expiry, for every interleaving of the concurrent checks and of the   *)
(* expirations of the key.                                                 *)
C39_CounterAlwaysExpires ==
    rl_count > 0 => rl_ttl

----------------------------------------------------------------------------
(* C40: whatever the responses (401, 429, 5xx, other 4xx, network errors,   *)
(* successes, in any order), a call of _make_authenticated_request has     *)
(* sent at most max_retries + 1 requests, and it ends by returning a       *)
(* response or raising an error: a call that has ended has returned (its   *)
(* last response being a success) or raised, a call that has not ended can *)
(* always take a further step, and every step of a call moves it forward   *)
(* through a bounded sequence of positions, so that it ends after at most  *)
(* StagesOfCall steps.                                                     *)
StagesOfCall == max_retries + 9

\* the position of a call, counted from its start; the passes of the loop
\* are counted by the attempt
StageOf(position, a) ==
    CASE position = "start" -> 0
      [] position = "refresh_first" -> 1
      [] position = "store_first" -> 2
      [] position = "send" -> 3 + a
      [] position = "lock" -> max_retries + 3
      [] position \in {"refresh_winner", "reread"} -> max_retries + 4
      [] position = "refresh_loser" -> max_retries + 5
      [] position \in {"store_winner", "store_loser"} -> max_retries + 6
      [] position = "retry" -> max_retries + 7
      [] position = "done" -> max_retries + 8

\* the steps of one call
CallStep(q) ==
    \/ BeginRequest(q)
    \/ \E ok \in BOOLEAN : RefreshRequest(q, ok)
    \/ StoreToken(q)
    \/ \E response \in Responses : SendRequest(q, response)
    \/ AcquireLock(q)
    \/ RereadToken(q)
    \/ \E response \in Responses : RetryRequest(q, response)

CallMoved(q) ==
    \/ rq_pc'[q] # rq_pc[q]
    \/ attempt'[q] # attempt[q]
    \/ requests_sent'[q] # requests_sent[q]
    \/ outcome'[q] # outcome[q]

====
